---- MODULE Spec2Model ----
(***************************************************************************)
(* wiki-cite: the edit guardrails (guardrails.py), the proposal model      *)
(* (models.py), the substitution engine (agent.py), the rate-limited,      *)
(* conflict-aware push service (wikipedia_push.py) and the review web      *)
(* handlers (web_app.py).                                                  *)
(*                                                                         *)
(* A text is a sequence of one-character strings, so that find, replace,   *)
(* the regular expressions of count_words and difflib's matching are       *)
(* computed character by character as the Python code computes them.       *)
(* A message built by an f-string is the sequence of its pieces.           *)
(***************************************************************************)
EXTENDS Integers, Sequences, FiniteSets, TLC

(***************************************************************************)
(* Bounds of the model.                                                    *)
(***************************************************************************)
\* the clock runs over 0..MaxTime ticks
MaxTime == 3
\* the configured rate_limit_edits_per_hour (config.py default 10)
MaxEditsPerHour == 2
\* live revisions of the article run over 1..MaxRevision
MaxRevision == 3
\* the clock ticks a submission to the wiki may take: 0..MaxDelay
MaxDelay == 1

(***************************************************************************)
(* Program constants.                                                      *)
(***************************************************************************)
\* timedelta(hours=1), in clock ticks of 30 minutes
Hour == 2
\* GuardrailsConfig defaults; the ratio 0.85 is kept in hundredths
DefaultMaxNewWords == 50
DefaultMaxContentRemovalPct == 20
DefaultMinSimilarityPct == 85
\* AgentConfig.max_edits_per_article
DefaultMaxEditsPerArticle == 15

(***************************************************************************)
(* Strings as sequences of characters.                                     *)
(***************************************************************************)
Min(a, b) == IF a < b THEN a ELSE b
Max(a, b) == IF a > b THEN a ELSE b

\* s[i:j] of Python, with 1-based i and exclusive end j
Slice(s, i, j) == IF j <= i THEN <<>> ELSE SubSeq(s, i, j - 1)

\* s[i:].startswith(w), 1-based i
StartsWithAt(s, i, w) ==
    /\ i >= 1
    /\ i + Len(w) - 1 <= Len(s)
    /\ \A k \in 1..Len(w) : s[i + k - 1] = w[k]

\* str.find(sub) + 1 : the 1-based index of the first occurrence, 0 when
\* there is none (Python's -1); the empty string is found at the start
Find(s, sub) ==
    LET hits == {i \in 1..(Len(s) + 1) : StartsWithAt(s, i, sub)}
    IN  IF hits = {} THEN 0 ELSE CHOOSE i \in hits : \A j \in hits : i <= j

\* the first index >= from whose character is in cs, 0 when there is none
FirstIn(s, from, cs) ==
    LET hits == {i \in from..Len(s) : s[i] \in cs}
    IN  IF hits = {} THEN 0 ELSE CHOOSE i \in hits : \A j \in hits : i <= j

\* the first index >= from where w starts, 0 when there is none
FindFrom(s, from, w) ==
    LET hits == {i \in from..Len(s) : StartsWithAt(s, i, w)}
    IN  IF hits = {} THEN 0 ELSE CHOOSE i \in hits : \A j \in hits : i <= j

\* str.lower() on the letters the model's texts use
LowerChar(c) ==
    CASE c = "R" -> "r"
      [] c = "C" -> "c"
      [] OTHER -> c

Lower(s) == [i \in 1..Len(s) |-> LowerChar(s[i])]

Whitespace == {" ", "\n"}

\* faulty variant: the last occurrence is replaced
ReplaceFirst_last(s, old, new) ==
    LET hits == {i \in 1..(Len(s) + 1) : StartsWithAt(s, i, old)}
        p    == IF hits = {} THEN 0
                ELSE CHOOSE i \in hits : \A j \in hits : i >= j
    IN  IF p = 0 THEN s
        ELSE Slice(s, 1, p) \o new \o Slice(s, p + Len(old), Len(s) + 1)

\* str.replace(old, new, 1)
ReplaceFirst(s, old, new) ==
    LET p == Find(s, old)
    IN  IF p = 0 THEN s
        ELSE Slice(s, 1, p) \o new \o Slice(s, p + Len(old), Len(s) + 1)

\* str.strip()
RECURSIVE LStrip(_)
LStrip(s) == IF s # <<>> /\ Head(s) \in Whitespace THEN LStrip(Tail(s)) ELSE s

RECURSIVE RStrip(_)
RStrip(s) ==
    IF s # <<>> /\ s[Len(s)] \in Whitespace
    THEN RStrip(SubSeq(s, 1, Len(s) - 1)) ELSE s

Strip(s) == RStrip(LStrip(s))

\* len(text.split()): the number of maximal runs of non-whitespace
SplitCount(s) ==
    Cardinality({i \in 1..Len(s) :
        /\ s[i] \notin Whitespace
        /\ (i = 1 \/ s[i - 1] \in Whitespace)})

(***************************************************************************)
(* guardrails.py: count_words.  Each re.sub scans left to right; where the *)
(* pattern matches at i the match is replaced and the scan resumes after   *)
(* it, elsewhere the character is kept.  A Match operator returns the      *)
(* index after the match, 0 when the pattern does not match at i.          *)
(***************************************************************************)
\* \{\{[^}]+\}\}
MatchTemplate(s, i) ==
    IF ~StartsWithAt(s, i, <<"{", "{">>) THEN 0
    ELSE LET c == FirstIn(s, i + 2, {"}"})
         IN  IF c >= i + 3 /\ StartsWithAt(s, c, <<"}", "}">>) THEN c + 2 ELSE 0

\* <ref[^>]*>.*?</ref>  (DOTALL)
MatchRefPair(s, i) ==
    IF ~StartsWithAt(s, i, <<"<", "r", "e", "f">>) THEN 0
    ELSE LET g == FirstIn(s, i + 4, {">"})
         IN  IF g = 0 THEN 0
             ELSE LET q == FindFrom(s, g + 1, <<"<", "/", "r", "e", "f", ">">>)
                  IN  IF q = 0 THEN 0 ELSE q + 6

\* <ref[^>]*/>
MatchRefSelfClosing(s, i) ==
    IF ~StartsWithAt(s, i, <<"<", "r", "e", "f">>) THEN 0
    ELSE LET g == FirstIn(s, i + 4, {">"})
         IN  IF g >= i + 5 /\ s[g - 1] = "/" THEN g + 1 ELSE 0

\* \[\[(?:[^|\]]+\|)?([^\]]+)\]\]
MatchWikilink(s, i) ==
    IF ~StartsWithAt(s, i, <<"[", "[">>) THEN 0
    ELSE LET c == FirstIn(s, i + 2, {"]"})
         IN  IF c >= i + 3 /\ StartsWithAt(s, c, <<"]", "]">>) THEN c + 2 ELSE 0

\* group 1 of the wikilink pattern matched at i: the label after the first
\* "|" when a non-empty target precedes it and a non-empty label follows,
\* the whole inside otherwise
WikilinkLabel(s, i) ==
    LET c   == FirstIn(s, i + 2, {"]"})
        bar == FirstIn(s, i + 2, {"|", "]"})
    IN  IF bar >= i + 3 /\ s[bar] = "|" /\ c >= bar + 2
        THEN Slice(s, bar + 1, c)
        ELSE Slice(s, i + 2, c)

\* a match can only start at the pattern's first character: the scan
\* copies the text up to the next one
RECURSIVE SubTemplates(_, _)
SubTemplates(s, i) ==
    LET j == FirstIn(s, i, {"{"})
    IN  IF i > Len(s) THEN <<>>
        ELSE IF j = 0 THEN Slice(s, i, Len(s) + 1)
        ELSE LET e == MatchTemplate(s, j)
             IN  Slice(s, i, j)
                 \o (IF e # 0 THEN SubTemplates(s, e)
                     ELSE <<s[j]>> \o SubTemplates(s, j + 1))

RECURSIVE SubRefPairs(_, _)
SubRefPairs(s, i) ==
    LET j == FirstIn(s, i, {"<"})
    IN  IF i > Len(s) THEN <<>>
        ELSE IF j = 0 THEN Slice(s, i, Len(s) + 1)
        ELSE LET e == MatchRefPair(s, j)
             IN  Slice(s, i, j)
                 \o (IF e # 0 THEN SubRefPairs(s, e)
                     ELSE <<s[j]>> \o SubRefPairs(s, j + 1))

RECURSIVE SubRefSelfClosing(_, _)
SubRefSelfClosing(s, i) ==
    LET j == FirstIn(s, i, {"<"})
    IN  IF i > Len(s) THEN <<>>
        ELSE IF j = 0 THEN Slice(s, i, Len(s) + 1)
        ELSE LET e == MatchRefSelfClosing(s, j)
             IN  Slice(s, i, j)
                 \o (IF e # 0 THEN SubRefSelfClosing(s, e)
                     ELSE <<s[j]>> \o SubRefSelfClosing(s, j + 1))

RECURSIVE SubWikilinks(_, _)
SubWikilinks(s, i) ==
    LET j == FirstIn(s, i, {"["})
    IN  IF i > Len(s) THEN <<>>
        ELSE IF j = 0 THEN Slice(s, i, Len(s) + 1)
        ELSE LET e == MatchWikilink(s, j)
             IN  Slice(s, i, j)
                 \o (IF e # 0 THEN WikilinkLabel(s, j) \o SubWikilinks(s, e)
                     ELSE <<s[j]>> \o SubWikilinks(s, j + 1))

count_words(text) ==
    LET c1 == SubTemplates(text, 1)
        c2 == SubRefPairs(c1, 1)
        c3 == SubRefSelfClosing(c2, 1)
        c4 == SubWikilinks(c3, 1)
    IN  SplitCount(c4)

(***************************************************************************)
(* guardrails.py: calculate_similarity, difflib.SequenceMatcher(None, a,   *)
(* b).ratio() with no junk (autojunk only acts on texts of 200 characters  *)
(* or more).  Ranges are 1-based with an exclusive upper end.              *)
(***************************************************************************)
RECURSIVE CommonRun(_, _, _, _, _, _)
CommonRun(a, b, i, j, ahi, bhi) ==
    IF i < ahi /\ j < bhi /\ a[i] = b[j]
    THEN 1 + CommonRun(a, b, i + 1, j + 1, ahi, bhi)
    ELSE 0

\* <<i, j, k>>: the longest block a[i:i+k] = b[j:j+k] in the ranges, the
\* one starting earliest in a, and of those the one starting earliest in b
find_longest_match(a, b, alo, ahi, blo, bhi) ==
    LET cands == {p \in (alo..(ahi - 1)) \X (blo..(bhi - 1)) : a[p[1]] = b[p[2]]}
        size  == [p \in cands |-> CommonRun(a, b, p[1], p[2], ahi, bhi)]
    IN  IF cands = {} THEN <<alo, blo, 0>>
        ELSE LET kmax == CHOOSE k \in {size[p] : p \in cands} :
                             \A q \in cands : size[q] <= k
                 tops == {p \in cands : size[p] = kmax}
                 imin == CHOOSE i \in {p[1] : p \in tops} :
                             \A q \in tops : i <= q[1]
                 jmin == CHOOSE j \in {p[2] : p \in {q \in tops : q[1] = imin}} :
                             \A q \in tops : q[1] = imin => j <= q[2]
             IN  <<imin, jmin, kmax>>

\* the total size of get_matching_blocks(): the longest match, then the
\* pieces to its left and to its right
RECURSIVE MatchCount(_, _, _, _, _, _)
MatchCount(a, b, alo, ahi, blo, bhi) ==
    LET m == find_longest_match(a, b, alo, ahi, blo, bhi)
    IN  IF m[3] = 0 THEN 0
        ELSE m[3]
             + MatchCount(a, b, alo, m[1], blo, m[2])
             + MatchCount(a, b, m[1] + m[3], ahi, m[2] + m[3], bhi)

\* ratio() = 2.0 * matches / (len(a) + len(b)), 1.0 for two empty texts;
\* kept as the exact fraction num / den
calculate_similarity(text1, text2) ==
    LET total == Len(text1) + Len(text2)
    IN  IF total = 0 THEN [num |-> 1, den |-> 1]
        ELSE [num |-> 2 * MatchCount(text1, text2, 1, Len(text1) + 1,
                                     1, Len(text2) + 1),
              den |-> total]

\* similarity < ratio, the ratio given in hundredths
SimilarityBelow(sim, pct) == sim.num * 100 < pct * sim.den

\* f"{similarity:.2f}" in hundredths: round to nearest, an exact tie to even
\* (for den < 80 every tie num/den = k/200 is an exact binary fraction)
Fmt2(sim) ==
    LET q == (100 * sim.num) \div sim.den
        r == 100 * sim.num - q * sim.den
    IN  IF 2 * r > sim.den \/ (2 * r = sim.den /\ q % 2 = 1) THEN q + 1 ELSE q

(***************************************************************************)
(* guardrails.py: count_removed_content and is_citation_or_template.       *)
(***************************************************************************)
\* The double arithmetic of int((removed / original_words) * 100).  A number
\* is a sequence of bits, most significant first, counted in units of
\* 2^-FracWidth.
FracWidth == 64
Mantissa == 53

Zeros(k) == [i \in 1..k |-> 0]

\* bits without its leading zeros
StripZeros(bits) ==
    LET ones == {i \in 1..Len(bits) : bits[i] = 1}
    IN  IF ones = {} THEN <<>>
        ELSE SubSeq(bits, CHOOSE i \in ones : \A j \in ones : i <= j, Len(bits))

\* a + b for bit sequences of one length; the sum is one bit longer.  A
\* carry enters position i when a lower position generates one and every
\* position between passes it on.
CarryInto(a, b, i) ==
    \E j \in (i + 1)..Len(a) :
        /\ a[j] = 1 /\ b[j] = 1
        /\ \A k \in (i + 1)..(j - 1) : a[k] + b[k] = 1

AddBits(a, b) ==
    [p \in 1..(Len(a) + 1) |->
        IF p = 1 THEN (IF CarryInto(a, b, 0) THEN 1 ELSE 0)
        ELSE (a[p - 1] + b[p - 1]
              + (IF CarryInto(a, b, p - 1) THEN 1 ELSE 0)) % 2]

RECURSIVE BitsValue(_)
BitsValue(bits) ==
    IF bits = <<>> THEN 0
    ELSE 2 * BitsValue(SubSeq(bits, 1, Len(bits) - 1)) + bits[Len(bits)]

\* the eight bits of q < 256
Byte(q) ==
    <<(q \div 128) % 2, (q \div 64) % 2, (q \div 32) % 2, (q \div 16) % 2,
      (q \div 8) % 2, (q \div 4) % 2, (q \div 2) % 2, q % 2>>

\* the first 8 * n bits of rem / den after the binary point, for rem < den,
\* by long division a byte at a time
RECURSIVE FracBits(_, _, _)
FracBits(rem, den, n) ==
    IF n = 0 THEN <<>>
    ELSE Byte((256 * rem) \div den)
         \o FracBits((256 * rem) % den, den, n - 1)

\* what is left of rem / den after those bits
RECURSIVE FracRest(_, _, _)
FracRest(rem, den, n) ==
    IF n = 0 THEN rem ELSE FracRest((256 * rem) % den, den, n - 1)

\* round to nearest, ties to even, to Mantissa significant bits; bits starts
\* with a 1, sticky says that the exact number has more below the last bit
RoundBits(bits, sticky) ==
    IF Len(bits) <= Mantissa THEN bits
    ELSE LET head == SubSeq(bits, 1, Mantissa)
             rest == SubSeq(bits, Mantissa + 1, Len(bits))
             more == sticky \/ \E i \in 2..Len(rest) : rest[i] = 1
             up   == rest[1] = 1 /\ (more \/ head[Mantissa] = 1)
         IN  (IF up
              THEN AddBits(head, Zeros(Mantissa - 1) \o <<1>>)
              ELSE head)
             \o Zeros(Len(rest))

\* the double num / den, for 0 <= num < den
FloatDiv(num, den) ==
    RoundBits(StripZeros(FracBits(num, den, FracWidth \div 8)),
              FracRest(num, den, FracWidth \div 8) # 0)

\* the double x * 100: 100 x = 64 x + 32 x + 4 x
FloatTimes100(x) ==
    LET a == <<0, 0>> \o x \o Zeros(6)
        b == <<0, 0, 0>> \o x \o Zeros(5)
        c == Zeros(6) \o x \o Zeros(2)
    IN  RoundBits(StripZeros(AddBits(Tail(AddBits(a, b)), c)), FALSE)

\* int(x): the bits before the binary point
FloatToInt(x) ==
    IF Len(x) <= FracWidth THEN 0
    ELSE BitsValue(SubSeq(x, 1, Len(x) - FracWidth))

\* int((removed / original_words) * 100) for 0 <= removed <= original_words
FloatPct(removed, original_words) ==
    IF removed = original_words THEN 100
    ELSE FloatToInt(FloatTimes100(FloatDiv(removed, original_words)))

count_removed_content(original, modified) ==
    LET original_words == count_words(original)
        modified_words == count_words(modified)
        removed        == Max(0, original_words - modified_words)
    IN  IF original_words = 0 THEN 0
        ELSE FloatPct(removed, original_words)

\* re.search(r"<ref[^>]*>", text, re.IGNORECASE)
HasRefTag(text) ==
    LET t == Lower(text)
    IN  \E i \in 1..Len(t) :
            /\ StartsWithAt(t, i, <<"<", "r", "e", "f">>)
            /\ FirstIn(t, i + 4, {">"}) # 0

\* re.search(r"\{\{cite", text, re.IGNORECASE)
HasCiteTemplate(text) ==
    Find(Lower(text), <<"{", "{", "c", "i", "t", "e">>) # 0

\* sum(len(str(t)) for t in wikicode.filter_templates()) for texts whose
\* templates are not nested: a template is {{ ... }} closed by the first }}
RECURSIVE TemplateChars(_, _)
TemplateChars(s, i) ==
    IF i > Len(s) THEN 0
    ELSE IF StartsWithAt(s, i, <<"{", "{">>)
              /\ FindFrom(s, i + 2, <<"}", "}">>) # 0
         THEN LET e == FindFrom(s, i + 2, <<"}", "}">>) + 2
              IN  (e - i) + TemplateChars(s, e)
         ELSE TemplateChars(s, i + 1)

is_citation_or_template(text) ==
    \/ HasRefTag(text)
    \/ HasCiteTemplate(text)
    \/ /\ TemplateChars(text, 1) > 0
       /\ Len(Strip(text)) > 0
       /\ TemplateChars(text, 1) * 10 > 7 * Len(text)

(***************************************************************************)
(* f-string pieces.                                                        *)
(***************************************************************************)
Digit(d) ==
    CASE d = 0 -> "0" [] d = 1 -> "1" [] d = 2 -> "2" [] d = 3 -> "3"
      [] d = 4 -> "4" [] d = 5 -> "5" [] d = 6 -> "6" [] d = 7 -> "7"
      [] d = 8 -> "8" [] d = 9 -> "9"

\* str(n) for n >= 0, digit by digit
RECURSIVE Decimal(_)
Decimal(n) == IF n < 10 THEN <<Digit(n)>> ELSE Decimal(n \div 10) \o <<Digit(n % 10)>>

\* f"{similarity:.2f}"
Fmt2Pieces(sim) ==
    LET h == Fmt2(sim)
    IN  Decimal(h \div 100) \o <<".", Digit((h \div 10) % 10), Digit(h % 10)>>

(***************************************************************************)
(* config.py: the configuration object.  The thresholds are independently  *)
(* overridable; DefaultConfig holds the defaults of the source, with the   *)
(* rate limit of the model's bound.                                        *)
(***************************************************************************)
DefaultSuffix == "(AI-assisted citation/cleanup, human-reviewed)"

DefaultConfig ==
    [max_new_words             |-> DefaultMaxNewWords,
     max_content_removal_pct   |-> DefaultMaxContentRemovalPct,
     min_similarity_pct        |-> DefaultMinSimilarityPct,
     max_edits_per_article     |-> DefaultMaxEditsPerArticle,
     rate_limit_edits_per_hour |-> MaxEditsPerHour,
     edit_summary_suffix       |-> DefaultSuffix]

(***************************************************************************)
(* models.py: EditType, ProposedEdit, EditProposal.                        *)
(* An edit is [edit_type, original_text, proposed_text, approved]; approved*)
(* is "None" (pending), "True" or "False".  The fields no operation reads  *)
(* or writes after construction (rationale, policy_reference, confidence,  *)
(* source, reviewer_notes) are left out.                                   *)
(***************************************************************************)
\* EditType: <<member name, value>>, the name as characters for EditType[...]
EditTypeMembers ==
    {<<<<"C", "I", "T", "A", "T", "I", "O", "N", "_", "A", "D", "D", "E", "D">>,
       "citation">>,
     <<<<"G", "R", "A", "M", "M", "A", "R", "_", "F", "I", "X">>,
       "grammar">>,
     <<<<"S", "T", "Y", "L", "E", "_", "F", "I", "X">>,
       "style">>,
     <<<<"W", "I", "K", "I", "L", "I", "N", "K", "_", "A", "D", "D", "E", "D">>,
       "wikilink">>,
     <<<<"P", "O", "L", "I", "C", "Y", "_", "F", "I", "X">>,
       "policy">>,
     <<<<"F", "O", "R", "M", "A", "T", "_", "F", "I", "X">>,
       "formatting">>}

EditTypeValues == {m[2] : m \in EditTypeMembers}

ProposedEdit(edit_type, original_text, proposed_text) ==
    [edit_type     |-> edit_type,
     original_text |-> original_text,
     proposed_text |-> proposed_text,
     approved      |-> "None"]

\* faulty variant: every edit that was not rejected counts as approved
get_approved_edits_not_rejected(edits) ==
    SelectSeq(edits, LAMBDA e : e.approved # "False")

\* [edit for edit in self.edits if edit.approved is True]
get_approved_edits(edits) == SelectSeq(edits, LAMBDA e : e.approved = "True")

\* counts[edit_type]: the number of approved edits of that type
CountOfType(approved, ty) == Len(SelectSeq(approved, LAMBDA e : e.edit_type = ty))

\* ", ".join(parts), each part a sequence of pieces
RECURSIVE JoinParts(_)
JoinParts(parts) ==
    IF parts = <<>> THEN <<>>
    ELSE IF Len(parts) = 1 THEN parts[1]
    ELSE parts[1] \o <<", ">> \o JoinParts(Tail(parts))

\* faulty variant: the grammar clause comes before the wikilink clause
get_edit_summary_grammar_first(edits) ==
    LET approved == get_approved_edits(edits)
        n(ty)    == CountOfType(approved, ty)
        plural(k) == IF k > 1 THEN <<"s">> ELSE <<>>
        parts ==
            (IF n("citation") # 0
             THEN << <<"added ">> \o Decimal(n("citation")) \o <<" citation">>
                     \o plural(n("citation")) >>
             ELSE <<>>)
         \o (IF n("grammar") # 0 THEN << <<"fixed grammar">> >> ELSE <<>>)
         \o (IF n("wikilink") # 0
             THEN << Decimal(n("wikilink")) \o <<" wikilink">>
                     \o plural(n("wikilink")) >>
             ELSE <<>>)
         \o (IF n("style") # 0 THEN << <<"style fixes">> >> ELSE <<>>)
         \o (IF n("policy") # 0 THEN << <<"policy compliance">> >> ELSE <<>>)
         \o (IF n("formatting") # 0 THEN << <<"formatting">> >> ELSE <<>>)
    IN  IF approved = <<>> THEN <<>>
        ELSE <<"Copyedit: ">> \o JoinParts(parts)
             \o <<" ", "(AI-assisted citation/cleanup, human-reviewed)">>

\* faulty variant: formatting edits yield no clause, and a summary without
\* a clause is empty
get_edit_summary_no_formatting(edits) ==
    LET approved == get_approved_edits(edits)
        n(ty)    == CountOfType(approved, ty)
        plural(k) == IF k > 1 THEN <<"s">> ELSE <<>>
        parts ==
            (IF n("citation") # 0
             THEN << <<"added ">> \o Decimal(n("citation")) \o <<" citation">>
                     \o plural(n("citation")) >>
             ELSE <<>>)
         \o (IF n("wikilink") # 0
             THEN << Decimal(n("wikilink")) \o <<" wikilink">>
                     \o plural(n("wikilink")) >>
             ELSE <<>>)
         \o (IF n("grammar") # 0 THEN << <<"fixed grammar">> >> ELSE <<>>)
         \o (IF n("style") # 0 THEN << <<"style fixes">> >> ELSE <<>>)
         \o (IF n("policy") # 0 THEN << <<"policy compliance">> >> ELSE <<>>)
    IN  IF parts = <<>> THEN <<>>
        ELSE <<"Copyedit: ">> \o JoinParts(parts)
             \o <<" ", "(AI-assisted citation/cleanup, human-reviewed)">>

\* EditProposal.get_edit_summary: <<>> is the empty string
get_edit_summary(edits) ==
    LET approved == get_approved_edits(edits)
        n(ty)    == CountOfType(approved, ty)
        plural(k) == IF k > 1 THEN <<"s">> ELSE <<>>
        parts ==
            (IF n("citation") # 0
             THEN << <<"added ">> \o Decimal(n("citation")) \o <<" citation">>
                     \o plural(n("citation")) >>
             ELSE <<>>)
         \o (IF n("wikilink") # 0
             THEN << Decimal(n("wikilink")) \o <<" wikilink">>
                     \o plural(n("wikilink")) >>
             ELSE <<>>)
         \o (IF n("grammar") # 0 THEN << <<"fixed grammar">> >> ELSE <<>>)
         \o (IF n("style") # 0 THEN << <<"style fixes">> >> ELSE <<>>)
         \o (IF n("policy") # 0 THEN << <<"policy compliance">> >> ELSE <<>>)
         \o (IF n("formatting") # 0 THEN << <<"formatting">> >> ELSE <<>>)
    IN  IF approved = <<>> THEN <<>>
        ELSE <<"Copyedit: ">> \o JoinParts(parts)
             \o <<" ", "(AI-assisted citation/cleanup, human-reviewed)">>

(***************************************************************************)
(* guardrails.py: validate_edit and validate_full_article_edit.  A verdict *)
(* is <<is_valid, reason>>, the reason a sequence of pieces, <<>> for "".  *)
(***************************************************************************)
\* faulty variant: the citation exemption is missing
validate_edit_no_exemption(cfg, edit) ==
    LET similarity     == calculate_similarity(edit.original_text, edit.proposed_text)
        original_words == count_words(edit.original_text)
        proposed_words == count_words(edit.proposed_text)
        added_words    == Max(0, proposed_words - original_words)
        removal_pct    == count_removed_content(edit.original_text, edit.proposed_text)
    IN  IF SimilarityBelow(similarity, cfg.min_similarity_pct)
        THEN <<FALSE, <<"Edit changes too much (similarity: ">>
                      \o Fmt2Pieces(similarity) \o <<")">> >>
        ELSE IF added_words > cfg.max_new_words
                /\ ~is_citation_or_template(edit.proposed_text)
        THEN <<FALSE, <<"Adds too many new words (">>
                      \o Decimal(added_words) \o <<" words)">> >>
        ELSE IF removal_pct > cfg.max_content_removal_pct
        THEN <<FALSE, <<"Removes too much content (">>
                      \o Decimal(removal_pct) \o <<"%)">> >>
        ELSE <<TRUE, <<>> >>

\* faulty variant: the added words are checked before the similarity
validate_edit_words_first(cfg, edit) ==
    LET similarity     == calculate_similarity(edit.original_text, edit.proposed_text)
        original_words == count_words(edit.original_text)
        proposed_words == count_words(edit.proposed_text)
        added_words    == Max(0, proposed_words - original_words)
        removal_pct    == count_removed_content(edit.original_text, edit.proposed_text)
    IN  IF edit.edit_type = "citation" THEN <<TRUE, <<>> >>
        ELSE IF added_words > cfg.max_new_words
                /\ ~is_citation_or_template(edit.proposed_text)
        THEN <<FALSE, <<"Adds too many new words (">>
                      \o Decimal(added_words) \o <<" words)">> >>
        ELSE IF SimilarityBelow(similarity, cfg.min_similarity_pct)
        THEN <<FALSE, <<"Edit changes too much (similarity: ">>
                      \o Fmt2Pieces(similarity) \o <<")">> >>
        ELSE IF removal_pct > cfg.max_content_removal_pct
        THEN <<FALSE, <<"Removes too much content (">>
                      \o Decimal(removal_pct) \o <<"%)">> >>
        ELSE <<TRUE, <<>> >>

validate_edit(cfg, edit) ==
    LET similarity     == calculate_similarity(edit.original_text, edit.proposed_text)
        original_words == count_words(edit.original_text)
        proposed_words == count_words(edit.proposed_text)
        added_words    == Max(0, proposed_words - original_words)
        removal_pct    == count_removed_content(edit.original_text, edit.proposed_text)
    IN  IF edit.edit_type = "citation" THEN <<TRUE, <<>> >>
        ELSE IF SimilarityBelow(similarity, cfg.min_similarity_pct)
        THEN <<FALSE, <<"Edit changes too much (similarity: ">>
                      \o Fmt2Pieces(similarity) \o <<")">> >>
        ELSE IF added_words > cfg.max_new_words
                /\ ~is_citation_or_template(edit.proposed_text)
        THEN <<FALSE, <<"Adds too many new words (">>
                      \o Decimal(added_words) \o <<" words)">> >>
        ELSE IF removal_pct > cfg.max_content_removal_pct
        THEN <<FALSE, <<"Removes too much content (">>
                      \o Decimal(removal_pct) \o <<"%)">> >>
        ELSE <<TRUE, <<>> >>

\* faulty variant: added words are forgiven when the text holds a citation
validate_full_article_edit_exempt(cfg, original, modified) ==
    LET similarity     == calculate_similarity(original, modified)
        removal_pct    == count_removed_content(original, modified)
        original_words == count_words(original)
        modified_words == count_words(modified)
        added_words    == Max(0, modified_words - original_words)
    IN  IF SimilarityBelow(similarity, cfg.min_similarity_pct)
        THEN <<FALSE, <<"Overall edit changes too much (similarity: ">>
                      \o Fmt2Pieces(similarity) \o <<")">> >>
        ELSE IF removal_pct > cfg.max_content_removal_pct
        THEN <<FALSE, <<"Removes too much content (">>
                      \o Decimal(removal_pct) \o <<"%)">> >>
        ELSE IF added_words > cfg.max_new_words
                /\ ~is_citation_or_template(modified)
        THEN <<FALSE, <<"Adds too many new words (">>
                      \o Decimal(added_words) \o <<" words)">> >>
        ELSE <<TRUE, <<>> >>

validate_full_article_edit(cfg, original, modified) ==
    LET similarity     == calculate_similarity(original, modified)
        removal_pct    == count_removed_content(original, modified)
        original_words == count_words(original)
        modified_words == count_words(modified)
        added_words    == Max(0, modified_words - original_words)
    IN  IF SimilarityBelow(similarity, cfg.min_similarity_pct)
        THEN <<FALSE, <<"Overall edit changes too much (similarity: ">>
                      \o Fmt2Pieces(similarity) \o <<")">> >>
        ELSE IF removal_pct > cfg.max_content_removal_pct
        THEN <<FALSE, <<"Removes too much content (">>
                      \o Decimal(removal_pct) \o <<"%)">> >>
        ELSE IF added_words > cfg.max_new_words
        THEN <<FALSE, <<"Adds too many new words (">>
                      \o Decimal(added_words) \o <<" words)">> >>
        ELSE <<TRUE, <<>> >>

(***************************************************************************)
(* agent.py: apply_edits.                                                  *)
(***************************************************************************)
\* sorted(keyed, key=first, reverse=True) on <<key, edit>> pairs: stable, so
\* pairs of equal key keep their order; the larger key comes first
RECURSIVE InsertDesc(_, _)
InsertDesc(sorted, p) ==
    IF sorted = <<>> THEN <<p>>
    ELSE IF Head(sorted)[1] >= p[1]
         THEN <<Head(sorted)>> \o InsertDesc(Tail(sorted), p)
         ELSE <<p>> \o sorted

RECURSIVE SortedDesc(_)
SortedDesc(keyed) ==
    IF keyed = <<>> THEN <<>>
    ELSE InsertDesc(SortedDesc(SubSeq(keyed, 1, Len(keyed) - 1)),
                    keyed[Len(keyed)])

\* the loop over sorted_edits on the working copy
RECURSIVE ReplaceEach(_, _)
ReplaceEach(modified_text, sorted_edits) ==
    IF sorted_edits = <<>> THEN modified_text
    ELSE LET edit == Head(sorted_edits)
         IN  ReplaceEach(
                 IF Find(modified_text, edit.original_text) # 0
                 THEN ReplaceFirst(modified_text, edit.original_text,
                                   edit.proposed_text)
                 ELSE modified_text,
                 Tail(sorted_edits))

\* faulty variant: the edits are applied in the order of the list
apply_edits_unsorted(wikitext, edits) == ReplaceEach(wikitext, edits)

\* the sort key is evaluated once, on article.wikitext, before the loop
apply_edits(wikitext, edits) ==
    LET keyed  == [i \in 1..Len(edits) |->
                       <<Find(wikitext, edits[i].original_text), edits[i]>>]
        sorted == SortedDesc(keyed)
    IN  ReplaceEach(wikitext, [i \in 1..Len(sorted) |-> sorted[i][2]])

(***************************************************************************)
(* wikipedia_push.py: RateLimiter, check_for_conflicts, push_edits.        *)
(***************************************************************************)
RateLimitMsg  == <<"Rate limit exceeded. Please wait before making more edits.">>
ConflictMsg   == <<"Edit conflict: article has been modified since analysis. Please re-analyze.">>
NoApprovedMsg == <<"No approved edits to push">>
SuccessMsg(edit_summary) == <<"Successfully pushed edits. Edit summary: ">> \o edit_summary
PageErrorMsg  == <<"Failed to access page: ", "<exception>">>
SaveErrorMsg  == <<"Failed to push edits: ", "<exception>">>

\* faulty variant: old timestamps are never removed
Prune_nothing(edit_times, t_now) == edit_times

\* self.edit_times = [t for t in self.edit_times if t > cutoff]
Prune(edit_times, t_now) ==
    LET cutoff == t_now - Hour
    IN  SelectSeq(edit_times, LAMBDA t : t > cutoff)

\* faulty variant: the comparison with the limit is off by one
can_edit_inclusive(max_edits_per_hour, edit_times, t_now) ==
    LET cutoff == t_now - Hour
        kept   == SelectSeq(edit_times, LAMBDA t : t > cutoff)
    IN  [edit_times |-> kept, ret |-> Len(kept) <= max_edits_per_hour]

\* faulty variant: a refused check evicts the oldest counted timestamp
can_edit_evicting(max_edits_per_hour, edit_times, t_now) ==
    LET kept == Prune(edit_times, t_now)
    IN  IF Len(kept) < max_edits_per_hour
        THEN [edit_times |-> kept, ret |-> TRUE]
        ELSE [edit_times |-> Tail(kept), ret |-> FALSE]

\* faulty variant: the list is counted before the old timestamps are removed
can_edit_sticky(max_edits_per_hour, edit_times, t_now) ==
    LET kept == Prune(edit_times, t_now)
    IN  [edit_times |-> kept, ret |-> Len(edit_times) < max_edits_per_hour]

\* RateLimiter.can_edit at time t_now: the pruned list it stores and the
\* value it returns
can_edit(max_edits_per_hour, edit_times, t_now) ==
    LET kept == Prune(edit_times, t_now)
    IN  [edit_times |-> kept, ret |-> Len(kept) < max_edits_per_hour]

\* RateLimiter.record_edit at time t_now
record_edit(edit_times, t_now) == Append(edit_times, t_now)

\* faulty variant: a failed lookup is taken as no conflict
check_for_conflicts_fail_open(live_revision, lookup_error, base_revision) ==
    IF lookup_error THEN FALSE ELSE Decimal(live_revision) # base_revision

\* str(page.revision) != base_revision, True when the lookup raises
check_for_conflicts(live_revision, lookup_error, base_revision) ==
    IF lookup_error THEN TRUE ELSE Decimal(live_revision) # base_revision

\* The wiki as one call of push_edits meets it: the live revision, which of
\* the three network calls raises (a call after one that raised is never
\* made), and the clock ticks the submission takes.
WikiEnvs(live_revision, max_delay) ==
    {env \in [live_revision : {live_revision},
              lookup_error  : BOOLEAN,
              page_error    : BOOLEAN,
              save_error    : BOOLEAN,
              delay         : 0..max_delay] :
        /\ env.lookup_error => ~env.page_error /\ ~env.save_error
        /\ env.page_error => ~env.save_error
        /\ env.lookup_error \/ env.page_error => env.delay = 0}

\* faulty variant: the conflict gate is evaluated before the rate gate
push_edits_conflict_first(cfg, edit_times, t_now, proposal, modified_text, env) ==
    LET ce       == can_edit(cfg.rate_limit_edits_per_hour, edit_times, t_now)
        conflict == check_for_conflicts(env.live_revision, env.lookup_error,
                                        proposal.article.revision_id)
        edit_summary == get_edit_summary(proposal.edits)
        call     == [text |-> modified_text, summary |-> edit_summary,
                     minor |-> TRUE, bot |-> TRUE]
        t_saved  == t_now + env.delay
    IN  IF conflict
        THEN [success |-> FALSE, message |-> ConflictMsg,
              gates |-> <<"conflict">>, saves |-> <<>>,
              recorded |-> <<>>, edit_times |-> edit_times]
        ELSE IF ~ce.ret
        THEN [success |-> FALSE, message |-> RateLimitMsg,
              gates |-> <<"conflict", "rate">>, saves |-> <<>>, recorded |-> <<>>,
              edit_times |-> ce.edit_times]
        ELSE IF edit_summary = <<>>
        THEN [success |-> FALSE, message |-> NoApprovedMsg,
              gates |-> <<"rate", "conflict", "summary">>, saves |-> <<>>,
              recorded |-> <<>>, edit_times |-> ce.edit_times]
        ELSE IF env.page_error
        THEN [success |-> FALSE, message |-> PageErrorMsg,
              gates |-> <<"rate", "conflict", "summary">>, saves |-> <<>>,
              recorded |-> <<>>, edit_times |-> ce.edit_times]
        ELSE IF env.save_error
        THEN [success |-> FALSE, message |-> SaveErrorMsg,
              gates |-> <<"rate", "conflict", "summary">>, saves |-> <<call>>,
              recorded |-> <<>>, edit_times |-> ce.edit_times]
        ELSE [success |-> TRUE, message |-> SuccessMsg(edit_summary),
              gates |-> <<"rate", "conflict", "summary">>, saves |-> <<call>>,
              recorded |-> <<t_saved>>,
              edit_times |-> record_edit(ce.edit_times, t_saved)]

\* faulty variant: record_edit is called before page.save
push_edits_record_first(cfg, edit_times, t_now, proposal, modified_text, env) ==
    LET ce       == can_edit(cfg.rate_limit_edits_per_hour, edit_times, t_now)
        conflict == check_for_conflicts(env.live_revision, env.lookup_error,
                                        proposal.article.revision_id)
        edit_summary == get_edit_summary(proposal.edits)
        call     == [text |-> modified_text, summary |-> edit_summary,
                     minor |-> TRUE, bot |-> TRUE]
        t_saved  == t_now + env.delay
    IN  IF ~ce.ret
        THEN [success |-> FALSE, message |-> RateLimitMsg,
              gates |-> <<"rate">>, saves |-> <<>>, recorded |-> <<>>,
              edit_times |-> ce.edit_times]
        ELSE IF conflict
        THEN [success |-> FALSE, message |-> ConflictMsg,
              gates |-> <<"rate", "conflict">>, saves |-> <<>>,
              recorded |-> <<>>, edit_times |-> ce.edit_times]
        ELSE IF edit_summary = <<>>
        THEN [success |-> FALSE, message |-> NoApprovedMsg,
              gates |-> <<"rate", "conflict", "summary">>, saves |-> <<>>,
              recorded |-> <<>>, edit_times |-> ce.edit_times]
        ELSE IF env.page_error
        THEN [success |-> FALSE, message |-> PageErrorMsg,
              gates |-> <<"rate", "conflict", "summary">>, saves |-> <<>>,
              recorded |-> <<>>, edit_times |-> ce.edit_times]
        ELSE IF env.save_error
        THEN [success |-> FALSE, message |-> SaveErrorMsg,
              gates |-> <<"rate", "conflict", "summary">>, saves |-> <<call>>,
              recorded |-> <<t_now>>,
              edit_times |-> record_edit(ce.edit_times, t_now)]
        ELSE [success |-> TRUE, message |-> SuccessMsg(edit_summary),
              gates |-> <<"rate", "conflict", "summary">>, saves |-> <<call>>,
              recorded |-> <<t_saved>>,
              edit_times |-> record_edit(ce.edit_times, t_saved)]

\* faulty variant: a failed page.save is tried a second time
push_edits_retry(cfg, edit_times, t_now, proposal, modified_text, env) ==
    LET ce       == can_edit(cfg.rate_limit_edits_per_hour, edit_times, t_now)
        conflict == check_for_conflicts(env.live_revision, env.lookup_error,
                                        proposal.article.revision_id)
        edit_summary == get_edit_summary(proposal.edits)
        call     == [text |-> modified_text, summary |-> edit_summary,
                     minor |-> TRUE, bot |-> TRUE]
        t_saved  == t_now + env.delay
    IN  IF ~ce.ret
        THEN [success |-> FALSE, message |-> RateLimitMsg,
              gates |-> <<"rate">>, saves |-> <<>>, recorded |-> <<>>,
              edit_times |-> ce.edit_times]
        ELSE IF conflict
        THEN [success |-> FALSE, message |-> ConflictMsg,
              gates |-> <<"rate", "conflict">>, saves |-> <<>>,
              recorded |-> <<>>, edit_times |-> ce.edit_times]
        ELSE IF edit_summary = <<>>
        THEN [success |-> FALSE, message |-> NoApprovedMsg,
              gates |-> <<"rate", "conflict", "summary">>, saves |-> <<>>,
              recorded |-> <<>>, edit_times |-> ce.edit_times]
        ELSE IF env.page_error
        THEN [success |-> FALSE, message |-> PageErrorMsg,
              gates |-> <<"rate", "conflict", "summary">>, saves |-> <<>>,
              recorded |-> <<>>, edit_times |-> ce.edit_times]
        ELSE IF env.save_error
        THEN [success |-> FALSE, message |-> SaveErrorMsg,
              gates |-> <<"rate", "conflict", "summary">>,
              saves |-> <<call, call>>,
              recorded |-> <<>>, edit_times |-> ce.edit_times]
        ELSE [success |-> TRUE, message |-> SuccessMsg(edit_summary),
              gates |-> <<"rate", "conflict", "summary">>, saves |-> <<call>>,
              recorded |-> <<t_saved>>,
              edit_times |-> record_edit(ce.edit_times, t_saved)]

\* push_edits(proposal, modified_text) on a limiter holding edit_times, called
\* at time t_now.  The result is the returned (success, message) with the
\* trace of the call: the gates evaluated in order, the page.save calls
\* made, the timestamps record_edit appended, and the limiter's list left.
push_edits(cfg, edit_times, t_now, proposal, modified_text, env) ==
    LET ce       == can_edit(cfg.rate_limit_edits_per_hour, edit_times, t_now)
        conflict == check_for_conflicts(env.live_revision, env.lookup_error,
                                        proposal.article.revision_id)
        edit_summary == get_edit_summary(proposal.edits)
        call     == [text |-> modified_text, summary |-> edit_summary,
                     minor |-> TRUE, bot |-> TRUE]
        t_saved  == t_now + env.delay
    IN  IF ~ce.ret
        THEN [success |-> FALSE, message |-> RateLimitMsg,
              gates |-> <<"rate">>, saves |-> <<>>, recorded |-> <<>>,
              edit_times |-> ce.edit_times]
        ELSE IF conflict
        THEN [success |-> FALSE, message |-> ConflictMsg,
              gates |-> <<"rate", "conflict">>, saves |-> <<>>,
              recorded |-> <<>>, edit_times |-> ce.edit_times]
        ELSE IF edit_summary = <<>>
        THEN [success |-> FALSE, message |-> NoApprovedMsg,
              gates |-> <<"rate", "conflict", "summary">>, saves |-> <<>>,
              recorded |-> <<>>, edit_times |-> ce.edit_times]
        ELSE IF env.page_error
        THEN [success |-> FALSE, message |-> PageErrorMsg,
              gates |-> <<"rate", "conflict", "summary">>, saves |-> <<>>,
              recorded |-> <<>>, edit_times |-> ce.edit_times]
        ELSE IF env.save_error
        THEN [success |-> FALSE, message |-> SaveErrorMsg,
              gates |-> <<"rate", "conflict", "summary">>, saves |-> <<call>>,
              recorded |-> <<>>, edit_times |-> ce.edit_times]
        ELSE [success |-> TRUE, message |-> SuccessMsg(edit_summary),
              gates |-> <<"rate", "conflict", "summary">>, saves |-> <<call>>,
              recorded |-> <<t_saved>>,
              edit_times |-> record_edit(ce.edit_times, t_saved)]

(***************************************************************************)
(* agent.py: analyze_article, from the agent's response to the proposal.   *)
(* A raw candidate is [edit_type, original_text, proposed_text], its       *)
(* edit_type tag a sequence of characters.                                 *)
(***************************************************************************)
\* str.upper() on one character
UpperChar(c) ==
    CASE c = "a" -> "A"
      [] c = "b" -> "B"
      [] c = "c" -> "C"
      [] c = "d" -> "D"
      [] c = "e" -> "E"
      [] c = "f" -> "F"
      [] c = "g" -> "G"
      [] c = "h" -> "H"
      [] c = "i" -> "I"
      [] c = "j" -> "J"
      [] c = "k" -> "K"
      [] c = "l" -> "L"
      [] c = "m" -> "M"
      [] c = "n" -> "N"
      [] c = "o" -> "O"
      [] c = "p" -> "P"
      [] c = "q" -> "Q"
      [] c = "r" -> "R"
      [] c = "s" -> "S"
      [] c = "t" -> "T"
      [] c = "u" -> "U"
      [] c = "v" -> "V"
      [] c = "w" -> "W"
      [] c = "x" -> "X"
      [] c = "y" -> "Y"
      [] c = "z" -> "Z"
      [] OTHER -> c

\* edit_data["edit_type"].upper().replace(" ", "_")
MemberName(tag) ==
    [i \in 1..Len(tag) |-> IF tag[i] = " " THEN "_" ELSE UpperChar(tag[i])]

\* EditType[name]: <<value>> of the member of that name, <<>> on KeyError
ParseEditType(tag) ==
    LET hit == {m \in EditTypeMembers : m[1] = MemberName(tag)}
    IN  IF hit = {} THEN <<>> ELSE <<(CHOOSE m \in hit : TRUE)[2]>>

\* the loop over edits_data[:max_edits_per_article]: a candidate of unknown
\* type is skipped, the others are kept when validate_edit accepts them
RECURSIVE ConvertEdits(_, _)
ConvertEdits(cfg, edits_data) ==
    IF edits_data = <<>> THEN <<>>
    ELSE LET edit_data == Head(edits_data)
             ty        == ParseEditType(edit_data.edit_type)
             rest      == ConvertEdits(cfg, Tail(edits_data))
         IN  IF ty = <<>> THEN rest
             ELSE LET edit == ProposedEdit(ty[1], edit_data.original_text,
                                           edit_data.proposed_text)
                  IN  IF validate_edit(cfg, edit)[1]
                      THEN <<edit>> \o rest
                      ELSE rest

\* the agent's response is [error, edits_data]: the API call or the JSON
\* parsing raised, or the list of raw candidates
analyze_article(cfg, id, article, response) ==
    IF response.error
    THEN [id |-> id, article |-> article, edits |-> <<>>,
          status |-> "rejected", reviewed_at |-> <<>>]
    ELSE [id |-> id, article |-> article,
          edits |-> ConvertEdits(cfg,
                       SubSeq(response.edits_data, 1,
                              Min(Len(response.edits_data),
                                  cfg.max_edits_per_article))),
          status |-> "pending", reviewed_at |-> <<>>]

(***************************************************************************)
(* The data the model runs on.                                             *)
(***************************************************************************)
\* the stub article as first published: "a b c d"
StubText == <<"a", " ", "b", " ", "c", " ", "d">>
\* the article after another editor's change: "a b c d."
OtherText == <<"a", " ", "b", " ", "c", " ", "d", ".">>
ArticleTitle == "Stub"

\* raw candidates the agent may return
\* a citation on the last word: "d" -> "d<ref/>"
RawCitation ==
    [edit_type |-> <<"c", "i", "t", "a", "t", "i", "o", "n", "_", "a", "d", "d", "e", "d">>, original_text |-> <<"d">>,
     proposed_text |-> <<"d", "<", "r", "e", "f", "/", ">">>]
\* a one-letter fix of the sentence: "a b c d" -> "a b c e"
RawGrammar ==
    [edit_type |-> <<"g", "r", "a", "m", "m", "a", "r", " ", "f", "i", "x">>, original_text |-> <<"a", " ", "b", " ", "c", " ", "d">>,
     proposed_text |-> <<"a", " ", "b", " ", "c", " ", "e">>]
\* a fix of a sentence the article does not hold: "x y z w" -> "x y z v"
RawMisquoted ==
    [edit_type |-> <<"s", "t", "y", "l", "e", "_", "f", "i", "x">>, original_text |-> <<"x", " ", "y", " ", "z", " ", "w">>,
     proposed_text |-> <<"x", " ", "y", " ", "z", " ", "v">>]
\* the tag the system prompt asks for: "citation"
RawPromptTag ==
    [edit_type |-> <<"c", "i", "t", "a", "t", "i", "o", "n">>, original_text |-> <<"d">>,
     proposed_text |-> <<"d", "<", "r", "e", "f", "/", ">">>]
\* a rewrite: "a b c d" -> "zz"
RawRewrite ==
    [edit_type |-> <<"s", "t", "y", "l", "e", "_", "f", "i", "x">>, original_text |-> <<"a", " ", "b", " ", "c", " ", "d">>,
     proposed_text |-> <<"z", "z">>]

AgentResponses ==
    {[error |-> TRUE, edits_data |-> <<>>],
     [error |-> FALSE, edits_data |-> <<RawCitation, RawGrammar>>],
     [error |-> FALSE, edits_data |-> <<RawMisquoted, RawPromptTag, RawRewrite>>]}

\* the replacement texts a reviewer may type into update-edit: "zz"
ReviewerTexts == {<<"z", "z">>}

\* the keys of the proposal store (uuid4 values)
ProposalIds == {"p1"}

(***************************************************************************)
(* State.                                                                  *)
(***************************************************************************)
VARIABLES
    config,      \* get_config(): the process-wide configuration
    now,         \* datetime.now(), in ticks
    edit_times,  \* push_service.rate_limiter.edit_times
    proposals,   \* the proposals dict of create_app: id -> EditProposal
    live,        \* the article on the wiki: [revision, text]
    record_log,  \* history: every timestamp record_edit appended
    n_success,   \* history: the push_edits calls that returned success
    last,        \* observation: the push_edits call that has just returned
    probe,       \* a guardrail function called on its own: input and result
    threads      \* the request threads of the web server: position and locals

vars == <<config, now, edit_times, proposals, live, record_log, n_success, last,
         probe, threads>>

\* <<>> unless the last step was a call of push_edits, then <<its record>>
NoCall == <<>>

\* no guardrail function is being called on its own
NoProbe == [op |-> "none", cfg |-> DefaultConfig,
            edit |-> ProposedEdit("grammar", <<>>, <<>>), out |-> <<>>]

\* the request threads of the server (app.run serves threaded)
Tids == {"t1", "t2"}

\* a thread that is serving no push request; calls counts those it served
IdleThread ==
    [pc |-> "idle", pid |-> "", modified_text |-> <<>>, kept |-> <<>>,
     saved_on |-> <<>>, ret |-> <<>>, calls |-> 0]

\* no request is being served
NoThreads == [t \in Tids |-> IdleThread]

Init ==
    /\ config = DefaultConfig
    /\ now = 0
    /\ edit_times = <<>>
    /\ proposals = <<>>
    /\ live = [revision |-> 1, text |-> StubText]
    /\ record_log = <<>>
    /\ n_success = 0
    /\ last = NoCall
    /\ threads = NoThreads
    /\ probe = NoProbe

(***************************************************************************)
(* web_app.py: the handlers.  A request that is answered 404 or 400        *)
(* changes nothing.                                                        *)
(***************************************************************************)
\* Article(...) of the candidate the picker fetched from the live wiki
FetchedArticle ==
    [title |-> ArticleTitle, wikitext |-> live.text,
     revision_id |-> Decimal(live.revision)]

\* GET /api/fetch-article: 404 when the picker finds no candidate, else the
\* proposal analyze_article returns is stored under a fresh id
FetchArticle ==
    /\ \/ \E id \in ProposalIds \ DOMAIN proposals, response \in AgentResponses :
            proposals' = [p \in DOMAIN proposals \cup {id} |->
                             IF p = id
                             THEN analyze_article(config, id, FetchedArticle,
                                                  response)
                             ELSE proposals[p]]
       \/ UNCHANGED proposals
    /\ last' = NoCall
    /\ UNCHANGED <<threads, probe, config, now, edit_times, live, record_log, n_success>>

\* the edit indexes a request may carry (<int:edit_index> is never negative)
EditIndexes == 0..2

\* the response code of the two checks every edit handler starts with
EditRequestCode(pid, edit_index) ==
    IF pid \notin DOMAIN proposals THEN 404
    ELSE IF edit_index < 0 \/ edit_index >= Len(proposals[pid].edits) THEN 400
    ELSE 200

\* proposal.edits[edit_index].approved = value
WithApproved(proposal, edit_index, value) ==
    [proposal EXCEPT !.edits[edit_index + 1].approved = value]

\* proposal.edits[edit_index].proposed_text = data["proposed_text"]
WithProposedText(proposal, edit_index, text) ==
    [proposal EXCEPT !.edits[edit_index + 1].proposed_text = text]

\* POST /api/proposals/<pid>/approve-edit/<edit_index>
ApproveEdit ==
    \E pid \in ProposalIds, edit_index \in EditIndexes :
        /\ proposals' = IF EditRequestCode(pid, edit_index) = 200
                        THEN [proposals EXCEPT ![pid] =
                                 WithApproved(@, edit_index, "True")]
                        ELSE proposals
        /\ last' = NoCall
        /\ UNCHANGED <<threads, probe, config, now, edit_times, live, record_log, n_success>>

\* POST /api/proposals/<pid>/reject-edit/<edit_index>
RejectEdit ==
    \E pid \in ProposalIds, edit_index \in EditIndexes :
        /\ proposals' = IF EditRequestCode(pid, edit_index) = 200
                        THEN [proposals EXCEPT ![pid] =
                                 WithApproved(@, edit_index, "False")]
                        ELSE proposals
        /\ last' = NoCall
        /\ UNCHANGED <<threads, probe, config, now, edit_times, live, record_log, n_success>>

\* POST /api/proposals/<pid>/update-edit/<edit_index>; data is <<>> when the
\* JSON body has no "proposed_text", <<text>> when it has
UpdateEdit ==
    \E pid \in ProposalIds, edit_index \in EditIndexes,
       data \in {<<>>} \cup {<<t>> : t \in ReviewerTexts} :
        /\ proposals' = IF EditRequestCode(pid, edit_index) = 200 /\ data # <<>>
                        THEN [proposals EXCEPT ![pid] =
                                 WithProposedText(@, edit_index, data[1])]
                        ELSE proposals
        /\ last' = NoCall
        /\ UNCHANGED <<threads, probe, config, now, edit_times, live, record_log, n_success>>

\* faulty variant: the status advances whatever push_edits returned
AfterPush_always(proposal, success, t_now) ==
    [proposal EXCEPT !.status = "pushed", !.reviewed_at = <<t_now>>]

\* faulty variant: a failed push puts the proposal back to pending
AfterPush_reset(proposal, success, t_now) ==
    IF success
    THEN [proposal EXCEPT !.status = "pushed", !.reviewed_at = <<t_now>>]
    ELSE [proposal EXCEPT !.status = "pending"]

\* the tail of push_proposal: status and reviewed_at after push_edits
AfterPush(proposal, success, t_now) ==
    IF success
    THEN [proposal EXCEPT !.status = "pushed", !.reviewed_at = <<t_now>>]
    ELSE proposal

\* the wiki after page.save: a changed text makes a new revision, an
\* unchanged text (a null edit) makes none
AfterSave(wiki, saved, text) ==
    IF saved /\ text # wiki.text
    THEN [revision |-> wiki.revision + 1, text |-> text]
    ELSE wiki

\* env with the outcomes of the network calls the call never made cleared
Consulted(env, ret) ==
    [live_revision |-> env.live_revision,
     lookup_error  |-> env.lookup_error /\ Len(ret.gates) >= 2,
     page_error    |-> env.page_error /\ ret.message = PageErrorMsg,
     save_error    |-> env.save_error /\ ret.saves # <<>>,
     delay         |-> IF ret.saves # <<>> THEN env.delay ELSE 0]

\* the record of one call of push_edits: what it was called with, the state
\* it was called in, what the wiki did and what it returned
PushRecord(caller, pid, modified_text, env) ==
    LET ret == push_edits(config, edit_times, now, proposals[pid],
                          modified_text, env)
    IN  [caller        |-> caller,
         proposal      |-> proposals[pid],
         modified_text |-> modified_text,
         t_now         |-> now,
         edit_times    |-> edit_times,
         record_log    |-> record_log,
         env           |-> Consulted(env, ret),
         ret           |-> ret]

\* what the call leaves behind in the limiter, the clock and the wiki
PushEffects(call) ==
    LET wiki == AfterSave(live, call.ret.success, call.modified_text)
    IN  /\ now + call.env.delay <= MaxTime
        /\ wiki.revision <= MaxRevision
        /\ edit_times' = call.ret.edit_times
        /\ now' = now + call.env.delay
        /\ live' = wiki
        /\ record_log' = record_log \o call.ret.recorded
        /\ n_success' = n_success + (IF call.ret.success THEN 1 ELSE 0)
        /\ last' = <<call>>

\* POST /api/proposals/<pid>/push
PushProposal ==
    \E pid \in ProposalIds :
        IF pid \notin DOMAIN proposals
           \/ get_approved_edits(proposals[pid].edits) = <<>>
        THEN /\ last' = NoCall
             /\ UNCHANGED <<threads, probe, config, now, edit_times, proposals, live,
                            record_log, n_success>>
        ELSE LET approved_edits == get_approved_edits(proposals[pid].edits)
                 modified_text  == apply_edits(proposals[pid].article.wikitext,
                                               approved_edits)
             IN  \E env \in WikiEnvs(live.revision, MaxDelay) :
                    LET call == PushRecord("push_proposal", pid,
                                           modified_text, env)
                    IN  /\ PushEffects(call)
                        /\ proposals' = [proposals EXCEPT ![pid] =
                               AfterPush(@, call.ret.success, now')]
                        /\ UNCHANGED <<threads, probe, config>>

\* push_service.push_edits(proposal, modified_text) called on the service
\* itself, as the tests and library clients do: no approved edit is needed
ServicePushEdits ==
    \E pid \in DOMAIN proposals :
        LET modified_text == apply_edits(proposals[pid].article.wikitext,
                                get_approved_edits(proposals[pid].edits))
        IN  \E env \in WikiEnvs(live.revision, MaxDelay) :
                /\ PushEffects(PushRecord("push_edits", pid, modified_text, env))
                /\ UNCHANGED <<threads, probe, config, proposals>>

\* GET /api/proposals/<pid>/preview: reads, writes nothing
PreviewProposal ==
    \E pid \in ProposalIds :
        /\ last' = NoCall
        /\ UNCHANGED <<threads, probe, config, now, edit_times, proposals, live,
                       record_log, n_success>>

(***************************************************************************)
(* The environment: the clock and the other editors of the wiki.           *)
(***************************************************************************)
Tick ==
    /\ now < MaxTime
    /\ now' = now + 1
    /\ last' = NoCall
    /\ UNCHANGED <<threads, probe, config, edit_times, proposals, live, record_log, n_success>>

OtherEditorSaves ==
    /\ live.revision < MaxRevision
    /\ live' = [revision |-> live.revision + 1,
                text |-> IF live.text = OtherText THEN StubText ELSE OtherText]
    /\ last' = NoCall
    /\ UNCHANGED <<threads, probe, config, now, edit_times, proposals, record_log, n_success>>

Next ==
    \/ FetchArticle
    \/ ApproveEdit
    \/ RejectEdit
    \/ UpdateEdit
    \/ PushProposal
    \/ ServicePushEdits
    \/ PreviewProposal
    \/ Tick
    \/ OtherEditorSaves

Spec == Init /\ [][Next]_vars

(***************************************************************************)
(* The same program with a clock that keeps running: time passes for as    *)
(* long as the model lets it.                                              *)
(***************************************************************************)
SpecWaiting == Spec /\ WF_vars(Tick)

(***************************************************************************)
(* The guardrail functions called on their own: the inputs are drawn in    *)
(* the initial state, the step applies the function.                       *)
(***************************************************************************)
\* configurations: the defaults, every threshold at its strictest, every
\* threshold at its most lenient, and thresholds the short texts can cross
ProbeConfigs ==
    {DefaultConfig,
     [DefaultConfig EXCEPT !.min_similarity_pct = 100, !.max_new_words = 0,
                           !.max_content_removal_pct = 0],
     [DefaultConfig EXCEPT !.min_similarity_pct = 0, !.max_new_words = 100,
                           !.max_content_removal_pct = 100],
     [DefaultConfig EXCEPT !.min_similarity_pct = 50, !.max_new_words = 1,
                           !.max_content_removal_pct = 40],
     [DefaultConfig EXCEPT !.min_similarity_pct = 50, !.max_new_words = 1,
                           !.max_content_removal_pct = 50],
     [DefaultConfig EXCEPT !.min_similarity_pct = 0, !.max_new_words = 1,
                           !.max_content_removal_pct = 100]}

\* <<original_text, proposed_text>>
ProbeTexts ==
    {<<<<"a", " ", "b", " ", "c", " ", "d">>, <<"a", " ", "b", " ", "c", " ", "d">>>>,            \* unchanged
     <<<<"a", " ", "b", " ", "c", " ", "d">>, <<"a", " ", "b", " ", "c", " ", "e">>>>,           \* one letter changed
     <<<<"d">>, <<"d", "<", "r", "e", "f", "/", ">">>>>,           \* a reference added
     <<<<"a", " ", "b", " ", "c", " ", "d">>, <<"z", "z">>>>,            \* rewritten and shortened
     <<<<"z", "z">>, <<"a", " ", "b", " ", "c", " ", "d">>>>,            \* rewritten and lengthened
     <<<<"a", " ", "b", " ", "c", " ", "d">>, <<"a", " ", "b">>>>,            \* half the words removed
     <<<<"a", " ", "b">>, <<"a", " ", "b", " ", "c", " ", "d">>>>,            \* two words added
     <<<<>>, <<"a", " ", "b", " ", "c", " ", "d">>>>,         \* inserted into nothing
     <<<<"a", " ", "b", " ", "c", " ", "d">>, <<>>>>,         \* deleted
     <<<<"a", " ", "b">>, <<"a">>>>,                \* one word of two removed
     <<<<"a">>, <<"a", " ", "b">>>>,                \* one word added
     <<<<"a">>,                                     \* two words and a reference added
       <<"a", " ", "b", " ", "c", "<", "r", "e", "f", "/", ">">>>>,
     <<<<"a", " ", "b", " ", "c">>, <<"a", " ", "b">>>>,    \* one word of three removed
     <<<<"a", " ", "b", " ", "c">>, <<"a">>>>}      \* two words of three removed

ProbeEdits ==
    {ProposedEdit(ty, t[1], t[2]) : ty \in EditTypeValues, t \in ProbeTexts}

\* a text of n one-letter words
WordsText(n) == [i \in 1..(2 * n - 1) |-> IF i % 2 = 1 THEN "a" ELSE " "]

\* <<words of the original, words of the modified text>>: every pair of
\* short texts, and long texts that lose 29 of 50 and 30 of 50 words
RemovalCounts ==
    ((0..6) \X (0..6)) \cup {<<50, 21>>, <<50, 20>>, <<50, 50>>, <<21, 50>>}

RemovalEdits ==
    {ProposedEdit("grammar", WordsText(c[1]), WordsText(c[2])) :
        c \in RemovalCounts}

InitGuard ==
    /\ config = DefaultConfig
    /\ now = 0
    /\ edit_times = <<>>
    /\ proposals = <<>>
    /\ live = [revision |-> 1, text |-> StubText]
    /\ record_log = <<>>
    /\ n_success = 0
    /\ last = NoCall
    /\ threads = NoThreads
    /\ \/ probe \in [op : {"validate_edit", "validate_full_article_edit"},
                     cfg : ProbeConfigs, edit : ProbeEdits, out : {<<>>}]
       \/ probe \in [op : {"count_removed_content"}, cfg : {DefaultConfig},
                     edit : RemovalEdits, out : {<<>>}]

\* guardrails.validate_edit(edit, "", "") under the drawn configuration
ValidateEditProbe ==
    /\ probe.op = "validate_edit"
    /\ probe.out = <<>>
    /\ probe' = [probe EXCEPT !.out = <<validate_edit(probe.cfg, probe.edit)>>]
    /\ UNCHANGED <<threads, config, now, edit_times, proposals, live, record_log,
                   n_success, last>>

\* guardrails.validate_full_article_edit(original, modified)
ValidateFullProbe ==
    /\ probe.op = "validate_full_article_edit"
    /\ probe.out = <<>>
    /\ probe' = [probe EXCEPT !.out =
                     <<validate_full_article_edit(probe.cfg,
                                                  probe.edit.original_text,
                                                  probe.edit.proposed_text)>>]
    /\ UNCHANGED <<threads, config, now, edit_times, proposals, live, record_log,
                   n_success, last>>

\* guardrails.count_removed_content(original, modified)
CountRemovedProbe ==
    /\ probe.op = "count_removed_content"
    /\ probe.out = <<>>
    /\ probe' = [probe EXCEPT !.out =
                     <<count_removed_content(probe.edit.original_text,
                                             probe.edit.proposed_text)>>]
    /\ UNCHANGED <<threads, config, now, edit_times, proposals, live, record_log,
                   n_success, last>>

NextGuard ==
    \/ ValidateEditProbe
    \/ ValidateFullProbe
    \/ CountRemovedProbe

SpecGuard == InitGuard /\ [][NextGuard]_vars

(***************************************************************************)
(* The agent's and the proposal's functions called on their own: probe is  *)
(* [op, cfg, wikitext, edits, out], the inputs are drawn in the initial    *)
(* state, the step applies the function.                                   *)
(***************************************************************************)
\* the edit_type tags a raw candidate may carry: the values of EditType, the
\* names of its members in lower case, and a tag that is neither
ProbeTags ==
    {<<"c", "i", "t", "a", "t", "i", "o", "n">>,
     <<"g", "r", "a", "m", "m", "a", "r">>,
     <<"s", "t", "y", "l", "e">>,
     <<"w", "i", "k", "i", "l", "i", "n", "k">>,
     <<"p", "o", "l", "i", "c", "y">>,
     <<"f", "o", "r", "m", "a", "t", "t", "i", "n", "g">>,
     <<"c", "i", "t", "a", "t", "i", "o", "n", "_", "a", "d", "d", "e", "d">>,
     <<"g", "r", "a", "m", "m", "a", "r", "_", "f", "i", "x">>,
     <<"s", "t", "y", "l", "e", "_", "f", "i", "x">>,
     <<"w", "i", "k", "i", "l", "i", "n", "k", "_", "a", "d", "d", "e", "d">>,
     <<"p", "o", "l", "i", "c", "y", "_", "f", "i", "x">>,
     <<"f", "o", "r", "m", "a", "t", "_", "f", "i", "x">>,
     <<"t", "y", "p", "o">>}

\* raw candidates: a one-letter fix and a rewrite of the sentence
ProbeCandidates ==
    {[edit_type |-> tag, original_text |-> StubText, proposed_text |-> t] :
        tag \in ProbeTags,
        t \in {<<"a", " ", "b", " ", "c", " ", "e">>, <<"z", "z">>}}

\* the agent's answers: one or two candidates
ProbeResponses ==
    {<<c>> : c \in ProbeCandidates}
    \cup {<<c, d>> : c \in ProbeCandidates, d \in ProbeCandidates}

\* the defaults, and at most one edit per article
AgentConfigs ==
    {DefaultConfig, [DefaultConfig EXCEPT !.max_edits_per_article = 1]}

\* the defaults, and a disclosure suffix of the operator's own
SuffixConfigs ==
    {DefaultConfig, [DefaultConfig EXCEPT !.edit_summary_suffix = "(bot)"]}

\* edits of every type in every state of review
ReviewedEdits ==
    {[ProposedEdit(ty, <<"a">>, <<"b">>) EXCEPT !.approved = ap] :
        ty \in EditTypeValues, ap \in {"None", "True", "False"}}

\* the edit lists of a proposal: up to three edits
ReviewedLists ==
    {<<>>} \cup {<<e>> : e \in ReviewedEdits}
    \cup {<<e, f>> : e \in ReviewedEdits, f \in ReviewedEdits}
    \cup {<<e, f, g>> : e \in ReviewedEdits, f \in ReviewedEdits,
                        g \in ReviewedEdits}

\* articles "ab" and "abab"
ApplyTexts == {<<"a", "b">>, <<"a", "b", "a", "b">>}

\* edits to apply: "a" -> "b", "b" -> "", "a" -> "zz", "" -> "x", "q" -> "z",
\* "b" -> "a", "ba" -> "a", "z" -> "a"
ApplyEdits ==
    {ProposedEdit("grammar", <<"a">>, <<"b">>),
     ProposedEdit("grammar", <<"b">>, <<>>),
     ProposedEdit("grammar", <<"a">>, <<"z", "z">>),
     ProposedEdit("grammar", <<>>, <<"x">>),
     ProposedEdit("grammar", <<"q">>, <<"z">>),
     ProposedEdit("grammar", <<"b">>, <<"a">>),
     ProposedEdit("grammar", <<"b", "a">>, <<"a">>),
     ProposedEdit("grammar", <<"z">>, <<"a">>)}

\* up to three of them
ApplyLists ==
    {<<>>} \cup {<<e>> : e \in ApplyEdits}
    \cup {<<e, f>> : e \in ApplyEdits, f \in ApplyEdits}
    \cup {<<e, f, g>> : e \in ApplyEdits, f \in ApplyEdits, g \in ApplyEdits}

\* the edit lists of a proposal that is pushed: up to two edits
PushedLists ==
    {<<>>} \cup {<<e>> : e \in ReviewedEdits}
    \cup {<<e, f>> : e \in ReviewedEdits, f \in ReviewedEdits}

\* the limiter with nothing recorded, and with the limit reached just now
LimiterLists == {<<>>, [i \in 1..MaxEditsPerHour |-> 0]}

\* the wiki at the base revision and at the next one; the submission takes
\* no time
PushEnvs == WikiEnvs(1, 0) \cup WikiEnvs(2, 0)

\* EditProposal(id, article, edits) for "ab" fetched at revision 1
PushedProposal(wikitext, edits) ==
    [id |-> "p1",
     article |-> [title |-> ArticleTitle, wikitext |-> wikitext,
                  revision_id |-> Decimal(1)],
     edits |-> edits, status |-> "pending", reviewed_at |-> <<>>]

InitAgent ==
    /\ config = DefaultConfig
    /\ now = 0
    /\ edit_times = <<>>
    /\ proposals = <<>>
    /\ live = [revision |-> 1, text |-> StubText]
    /\ record_log = <<>>
    /\ n_success = 0
    /\ last = NoCall
    /\ threads = NoThreads
    /\ \/ probe \in [op : {"analyze_article"}, cfg : AgentConfigs,
                     wikitext : {StubText}, edits : ProbeResponses,
                     out : {<<>>}]
       \/ probe \in [op : {"get_edit_summary"}, cfg : SuffixConfigs,
                     wikitext : {StubText}, edits : ReviewedLists,
                     out : {<<>>}]
       \/ probe \in [op : {"apply_edits"}, cfg : {DefaultConfig},
                     wikitext : ApplyTexts, edits : ApplyLists, out : {<<>>}]
       \/ probe \in [op : {"push_edits"}, cfg : {DefaultConfig},
                     wikitext : {<<"a", "b">>}, edits : PushedLists,
                     edit_times : LimiterLists, env : PushEnvs, out : {<<>>}]

\* agent.analyze_article(article) when the agent answers probe.edits
AnalyzeProbe ==
    /\ probe.op = "analyze_article"
    /\ probe.out = <<>>
    /\ probe' = [probe EXCEPT !.out =
                     <<analyze_article(probe.cfg, "p1",
                           [title |-> ArticleTitle, wikitext |-> probe.wikitext,
                            revision_id |-> Decimal(1)],
                           [error |-> FALSE, edits_data |-> probe.edits])>>]
    /\ UNCHANGED <<threads, config, now, edit_times, proposals, live, record_log,
                   n_success, last>>

\* proposal.get_edit_summary() under the configuration probe.cfg
SummaryProbe ==
    /\ probe.op = "get_edit_summary"
    /\ probe.out = <<>>
    /\ probe' = [probe EXCEPT !.out = <<get_edit_summary(probe.edits)>>]
    /\ UNCHANGED <<threads, config, now, edit_times, proposals, live, record_log,
                   n_success, last>>

\* agent.apply_edits(article, edits)
ApplyProbe ==
    /\ probe.op = "apply_edits"
    /\ probe.out = <<>>
    /\ probe' = [probe EXCEPT !.out =
                     <<apply_edits(probe.wikitext, probe.edits)>>]
    /\ UNCHANGED <<threads, config, now, edit_times, proposals, live, record_log,
                   n_success, last>>

\* push_service.push_edits(proposal, modified_text) on a limiter holding
\* probe.edit_times, the wiki answering as probe.env says
PushProbe ==
    /\ probe.op = "push_edits"
    /\ probe.out = <<>>
    /\ probe' = [probe EXCEPT !.out =
                     <<push_edits(probe.cfg, probe.edit_times, now,
                                  PushedProposal(probe.wikitext, probe.edits),
                                  apply_edits(probe.wikitext,
                                              get_approved_edits(probe.edits)),
                                  probe.env)>>]
    /\ UNCHANGED <<threads, config, now, edit_times, proposals, live, record_log,
                   n_success, last>>

NextAgent ==
    \/ AnalyzeProbe
    \/ SummaryProbe
    \/ ApplyProbe
    \/ PushProbe

SpecAgent == InitAgent /\ [][NextAgent]_vars

(***************************************************************************)
(* Push requests served by concurrent threads.  create_app builds one      *)
(* WikipediaPushService, so every request thread works on the same         *)
(* RateLimiter; there is no lock, and a thread can be preempted between    *)
(* any two of the steps below.  The wiki and the clock move in between.    *)
(***************************************************************************)
\* the push requests the server is sent
MaxRequests == 3

\* the reviewed proposal the requests push: fetched at revision 1, its
\* citation edit approved
ReviewedProposal ==
    WithApproved(
        analyze_article(DefaultConfig, "p1",
                        [title |-> ArticleTitle, wikitext |-> StubText,
                         revision_id |-> Decimal(1)],
                        [error |-> FALSE,
                         edits_data |-> <<RawCitation, RawGrammar>>]),
        0, "True")

\* the hourly limits the server is configured with
RateLimits == 1..MaxEditsPerHour

InitThreads ==
    /\ config \in {[DefaultConfig EXCEPT !.rate_limit_edits_per_hour = m] :
                       m \in RateLimits}
    /\ now = 0
    /\ edit_times = <<>>
    /\ proposals = [pid \in ProposalIds |-> ReviewedProposal]
    /\ live = [revision |-> 1, text |-> StubText]
    /\ record_log = <<>>
    /\ n_success = 0
    /\ last = NoCall
    /\ probe = NoProbe
    /\ threads = NoThreads

\* the requests received so far
Requests == threads["t1"].calls + threads["t2"].calls

\* push_edits returns (success, message) to push_proposal
Returning(thread, success, message) ==
    [thread EXCEPT !.pc = "return",
                   !.ret = <<[success |-> success, message |-> message]>>]

\* push_proposal up to the list comprehension of can_edit: the approved
\* edits are applied, and the timestamps newer than the cutoff are
\* collected from the list as it is now
ThreadCanEditRead ==
    \E t \in Tids, pid \in ProposalIds :
        /\ threads[t].pc = "idle"
        /\ Requests < MaxRequests
        /\ pid \in DOMAIN proposals
        /\ get_approved_edits(proposals[pid].edits) # <<>>
        /\ threads' = [threads EXCEPT ![t] =
               [pc |-> "store", pid |-> pid,
                modified_text |->
                    apply_edits(proposals[pid].article.wikitext,
                                get_approved_edits(proposals[pid].edits)),
                kept |-> Prune(edit_times, now),
                saved_on |-> <<>>, ret |-> <<>>,
                calls |-> threads[t].calls + 1]]
        /\ UNCHANGED <<config, now, edit_times, proposals, live, record_log,
                       n_success, last, probe>>

\* self.edit_times = <the collected list>
ThreadCanEditStore ==
    \E t \in Tids :
        /\ threads[t].pc = "store"
        /\ edit_times' = threads[t].kept
        /\ threads' = [threads EXCEPT ![t].pc = "compare"]
        /\ UNCHANGED <<config, now, proposals, live, record_log, n_success,
                       last, probe>>

\* return len(self.edit_times) < self.max_edits_per_hour, and the first
\* gate of push_edits
ThreadCanEditReturn ==
    \E t \in Tids :
        /\ threads[t].pc = "compare"
        /\ threads' = [threads EXCEPT ![t] =
               IF Len(edit_times) < config.rate_limit_edits_per_hour
               THEN [@ EXCEPT !.pc = "check_for_conflicts"]
               ELSE Returning(@, FALSE, RateLimitMsg)]
        /\ UNCHANGED <<config, now, edit_times, proposals, live, record_log,
                       n_success, last, probe>>

\* the second gate: the live revision is read and compared
ThreadCheckForConflicts ==
    \E t \in Tids, lookup_error \in BOOLEAN :
        /\ threads[t].pc = "check_for_conflicts"
        /\ threads' = [threads EXCEPT ![t] =
               IF check_for_conflicts(live.revision, lookup_error,
                      proposals[threads[t].pid].article.revision_id)
               THEN Returning(@, FALSE, ConflictMsg)
               ELSE [@ EXCEPT !.pc = "save"]]
        /\ UNCHANGED <<config, now, edit_times, proposals, live, record_log,
                       n_success, last, probe>>

\* the summary gate, the page lookup and page.save; saved_on is the live
\* revision at the moment page.save is called
ThreadSave ==
    \E t \in Tids, page_error \in BOOLEAN, save_error \in BOOLEAN :
        LET edit_summary == get_edit_summary(proposals[threads[t].pid].edits)
            saved        == edit_summary # <<>> /\ ~page_error /\ ~save_error
            wiki         == AfterSave(live, saved, threads[t].modified_text)
        IN  /\ threads[t].pc = "save"
            /\ page_error => ~save_error
            /\ wiki.revision <= MaxRevision
            /\ live' = wiki
            /\ threads' = [threads EXCEPT ![t] =
                   IF edit_summary = <<>>
                   THEN Returning(@, FALSE, NoApprovedMsg)
                   ELSE IF page_error
                   THEN Returning(@, FALSE, PageErrorMsg)
                   ELSE IF save_error
                   THEN Returning([@ EXCEPT !.saved_on = <<live.revision>>],
                                  FALSE, SaveErrorMsg)
                   ELSE [@ EXCEPT !.pc = "record_edit",
                                  !.saved_on = <<live.revision>>]]
            /\ UNCHANGED <<config, now, edit_times, proposals, record_log,
                           n_success, last, probe>>

\* self.rate_limiter.record_edit() and the successful return
ThreadRecordEdit ==
    \E t \in Tids :
        /\ threads[t].pc = "record_edit"
        /\ edit_times' = record_edit(edit_times, now)
        /\ record_log' = Append(record_log, now)
        /\ n_success' = n_success + 1
        /\ threads' = [threads EXCEPT ![t] =
               Returning(@, TRUE,
                   SuccessMsg(get_edit_summary(proposals[threads[t].pid].edits)))]
        /\ UNCHANGED <<config, now, proposals, live, last, probe>>

\* the tail of push_proposal, and the thread is free again
ThreadReturn ==
    \E t \in Tids :
        /\ threads[t].pc = "return"
        /\ proposals' = [proposals EXCEPT ![threads[t].pid] =
               AfterPush(@, threads[t].ret[1].success, now)]
        /\ threads' = [threads EXCEPT ![t] =
               [IdleThread EXCEPT !.calls = threads[t].calls]]
        /\ UNCHANGED <<config, now, edit_times, live, record_log, n_success,
                       last, probe>>

NextThreads ==
    \/ ThreadCanEditRead
    \/ ThreadCanEditStore
    \/ ThreadCanEditReturn
    \/ ThreadCheckForConflicts
    \/ ThreadSave
    \/ ThreadRecordEdit
    \/ ThreadReturn
    \/ Tick
    \/ OtherEditorSaves

SpecThreads == InitThreads /\ [][NextThreads]_vars

(***************************************************************************)
(* The properties.  A push_edits call is judged on its record in last:     *)
(* the facts of the state it was called in are computed here from the      *)
(* history and the wiki, not from what the call reported.                  *)
(***************************************************************************)
\* the call of push_edits that has just returned
Call == last[1]

\* the timestamps of log that lie in the hour ending at t: t - Hour < x <= t
InHour(log, t) == SelectSeq(log, LAMBDA x : x > t - Hour /\ x <= t)

\* the limit was reached by the pushes recorded in the hour before the call
RateLimited(c) ==
    Len(InHour(c.record_log, c.t_now)) >= config.rate_limit_edits_per_hour

\* the revision could not be read, or is not the one the proposal was made of
Conflicted(c) ==
    \/ c.env.lookup_error
    \/ Decimal(c.env.live_revision) # c.proposal.article.revision_id

\* the edits of the proposal whose approved flag is True at the call
ApprovedAt(c) == SelectSeq(c.proposal.edits, LAMBDA e : e.approved = "True")

AllGates == <<"rate", "conflict", "summary">>

\* C1: push_edits evaluates the rate limit, then the conflict, then the
\* summary of the approved edits, and reports the first gate that fails: a
\* rate-limited call fails with the rate-limit message whatever else holds,
\* a conflicted call that is not rate-limited fails with the conflict
\* message even with no approved edit, and only then is the lack of
\* approved edits reported.
C1_GateOrder ==
    last # NoCall =>
        /\ RateLimited(Call) =>
              /\ ~Call.ret.success
              /\ Call.ret.message = RateLimitMsg
              /\ Call.ret.gates = <<"rate">>
        /\ ~RateLimited(Call) /\ Conflicted(Call) =>
              /\ ~Call.ret.success
              /\ Call.ret.message = ConflictMsg
              /\ Call.ret.gates = <<"rate", "conflict">>
        /\ ~RateLimited(Call) /\ ~Conflicted(Call) /\ ApprovedAt(Call) = <<>> =>
              /\ ~Call.ret.success
              /\ Call.ret.message = NoApprovedMsg
              /\ Call.ret.gates = AllGates

\* a call that is rate-limited, conflicted and without an approved edit
C1_Witness ==
    /\ last # NoCall
    /\ RateLimited(Call) /\ Conflicted(Call) /\ ApprovedAt(Call) = <<>>
    /\ Call.ret.message = RateLimitMsg

\* C2: a push_edits call appends exactly one timestamp to the RateLimiter
\* when it returns success and none when it returns failure, so the number
\* of appended timestamps always equals the number of successful calls.
C2_QuotaOnlyOnSuccess ==
    /\ Len(record_log) = n_success
    /\ last # NoCall =>
          /\ Len(Call.ret.recorded) = (IF Call.ret.success THEN 1 ELSE 0)
          /\ record_log = Call.record_log \o Call.ret.recorded
          /\ edit_times =
                SelectSeq(Call.edit_times, LAMBDA t : t > Call.t_now - Hour)
                \o Call.ret.recorded

\* a submission that failed in page.save after earlier successful pushes
C2_Witness ==
    /\ last # NoCall
    /\ Call.env.save_error
    /\ Call.ret.saves # <<>>
    /\ ~Call.ret.success
    /\ n_success >= 1

\* C3: a proposal's status becomes "pushed" only in a step of push_proposal
\* whose push_edits call returned success; a step of push_proposal whose
\* push_edits call failed leaves status and reviewed_at as they were.
C3_PushedOnlyOnSuccess ==
    [][\A pid \in DOMAIN proposals \cap DOMAIN proposals' :
          /\ (proposals'[pid].status = "pushed"
                 /\ proposals[pid].status # "pushed") =>
                (/\ last' # NoCall
                 /\ last'[1].caller = "push_proposal"
                 /\ last'[1].proposal.id = pid
                 /\ last'[1].ret.success)
          /\ (last' # NoCall /\ ~last'[1].ret.success) =>
                (/\ proposals'[pid].status = proposals[pid].status
                 /\ proposals'[pid].reviewed_at = proposals[pid].reviewed_at)
      ]_vars

\* a push through the web handler has failed on a pending proposal, which
\* is pending still
C3_Witness ==
    /\ last # NoCall
    /\ Call.caller = "push_proposal"
    /\ ~Call.ret.success
    /\ Call.proposal.status = "pending"
    /\ proposals[Call.proposal.id].status = "pending"
    /\ proposals[Call.proposal.id].reviewed_at = <<>>

\* C4: push_edits calls page.save at most once, and only when the limit was
\* not reached, the revision was read and unchanged and there was an
\* approved edit; a call that fails a gate saves nothing, and a save that
\* raised is not tried again.
C4_SaveAtMostOnce ==
    last # NoCall =>
        /\ Len(Call.ret.saves) <= 1
        /\ Call.ret.saves # <<>> =>
              /\ ~RateLimited(Call)
              /\ ~Conflicted(Call)
              /\ ApprovedAt(Call) # <<>>
              /\ Call.ret.gates = AllGates
        /\ (RateLimited(Call) \/ Conflicted(Call) \/ ApprovedAt(Call) = <<>>) =>
              Call.ret.saves = <<>>
        /\ Call.env.save_error =>
              /\ Len(Call.ret.saves) = 1
              /\ ~Call.ret.success
              /\ Call.ret.message = SaveErrorMsg

\* a save that raised: it was made once and the call failed
C4_Witness ==
    /\ last # NoCall
    /\ Call.env.save_error
    /\ Len(Call.ret.saves) = 1
    /\ Call.ret.message = SaveErrorMsg

\* C5: with one caller at a time and a clock that never goes back, the
\* successful submissions whose recorded timestamps lie in one window of an
\* hour, t - Hour < x <= t, are never more than max_edits_per_hour.
C5_SlidingWindowCap ==
    \A t \in 0..MaxTime :
        Len(InHour(record_log, t)) <= config.rate_limit_edits_per_hour

\* more submissions than the limit were recorded, over more than one hour,
\* with the window that ends now full
C5_Witness ==
    /\ Len(record_log) > config.rate_limit_edits_per_hour
    /\ Len(InHour(record_log, now)) = config.rate_limit_edits_per_hour

\* can_edit returned true in the call c: the call went on to the next gate
CanEditReturnedTrue(c) == Len(c.ret.gates) > 1

\* C6: can_edit returns true while fewer than max_edits_per_hour edits were
\* recorded within the last hour (less than an hour ago), false once
\* max_edits_per_hour edits were recorded within the last hour, and true
\* again once every recorded timestamp is more than one hour old.
C6_CanEdit ==
    last # NoCall =>
        LET recent == SelectSeq(Call.record_log,
                                LAMBDA x : x > Call.t_now - Hour)
            aged   == \A i \in 1..Len(Call.record_log) :
                          Call.record_log[i] < Call.t_now - Hour
        IN  /\ Len(recent) < config.rate_limit_edits_per_hour =>
                  CanEditReturnedTrue(Call)
            /\ Len(recent) = config.rate_limit_edits_per_hour =>
                  ~CanEditReturnedTrue(Call)
            /\ aged => CanEditReturnedTrue(Call)

\* the limit had been reached, every recorded timestamp is now more than an
\* hour old, and can_edit has returned true again
C6_Witness ==
    /\ last # NoCall
    /\ Len(Call.record_log) >= config.rate_limit_edits_per_hour
    /\ \A i \in 1..Len(Call.record_log) :
           Call.record_log[i] < Call.t_now - Hour
    /\ CanEditReturnedTrue(Call)

\* check_for_conflicts was called in the call c and returned true
ConflictReturnedTrue(c) ==
    c.ret.gates = <<"rate", "conflict">> /\ c.ret.message = ConflictMsg

\* C7: check_for_conflicts returns false exactly when the live revision was
\* read and equals base_revision, true when it differs and true when
\* reading it raised; in that last case push_edits fails with the conflict
\* message and submits nothing.
C7_FailClosed ==
    (last # NoCall /\ Len(Call.ret.gates) >= 2) =>
        /\ ~ConflictReturnedTrue(Call) <=>
              (/\ ~Call.env.lookup_error
               /\ Decimal(Call.env.live_revision) =
                      Call.proposal.article.revision_id)
        /\ Call.env.lookup_error =>
              /\ ~Call.ret.success
              /\ Call.ret.message = ConflictMsg
              /\ Call.ret.saves = <<>>
              /\ Call.ret.recorded = <<>>

\* the lookup raised although the live revision is the base revision and
\* there is an approved edit to push
C7_Witness ==
    /\ last # NoCall
    /\ Call.env.lookup_error
    /\ Decimal(Call.env.live_revision) = Call.proposal.article.revision_id
    /\ ApprovedAt(Call) # <<>>
    /\ Call.ret.message = ConflictMsg

\* C8: every text page.save is given by a push through the web handler is a
\* text validate_full_article_edit accepts against the article's wikitext.
C8_SubmittedTextValidated ==
    (last # NoCall /\ Call.caller = "push_proposal") =>
        \A i \in 1..Len(Call.ret.saves) :
            validate_full_article_edit(config, Call.proposal.article.wikitext,
                                       Call.ret.saves[i].text)[1]

\* C9: the text submitted for a proposal is apply_edits of the article and
\* the edits whose approved flag is True at the push, the summary is built
\* from those edits alone, and a proposal with no approved edit is never
\* submitted.
C9_OnlyApprovedEdits ==
    last # NoCall =>
        /\ ApprovedAt(Call) = <<>> => Call.ret.saves = <<>>
        /\ (Call.caller = "push_proposal" /\ Call.ret.saves # <<>>) =>
              /\ Call.ret.saves[1].text =
                     apply_edits(Call.proposal.article.wikitext,
                                 ApprovedAt(Call))
              /\ Call.ret.saves[1].summary = get_edit_summary(ApprovedAt(Call))

\* a submission made while another edit of the proposal, one that would
\* have changed the text, was pending or rejected
C9_Witness ==
    /\ last # NoCall
    /\ Call.caller = "push_proposal"
    /\ Call.ret.success
    /\ \E i \in 1..Len(Call.proposal.edits) :
           Call.proposal.edits[i].approved # "True"
    /\ apply_edits(Call.proposal.article.wikitext, Call.proposal.edits)
           # Call.ret.saves[1].text

\* C10: validate_edit accepts every edit of type citation with an empty
\* reason, whatever the similarity, the added words and the removal of its
\* texts and whatever the configured thresholds.
C10_CitationExempt ==
    (/\ probe.op = "validate_edit"
     /\ probe.out # <<>>
     /\ probe.edit.edit_type = "citation") =>
        probe.out[1] = <<TRUE, <<>> >>

\* a citation edit accepted although its texts are less similar than the
\* configured minimum
C10_Witness ==
    /\ probe.op = "validate_edit"
    /\ probe.out # <<>>
    /\ probe.edit.edit_type = "citation"
    /\ SimilarityBelow(calculate_similarity(probe.edit.original_text,
                                            probe.edit.proposed_text),
                       probe.cfg.min_similarity_pct)
    /\ probe.out[1][1]

\* the measures of the probed pair of texts
ProbeSimilarity ==
    calculate_similarity(probe.edit.original_text, probe.edit.proposed_text)
ProbeAdded ==
    Max(0, count_words(probe.edit.proposed_text)
           - count_words(probe.edit.original_text))
ProbeRemoval ==
    count_removed_content(probe.edit.original_text, probe.edit.proposed_text)
ProbeTooDifferent ==
    100 * ProbeSimilarity.num < probe.cfg.min_similarity_pct * ProbeSimilarity.den

\* the verdict is a rejection whose reason starts with the piece kind
RejectedFor(verdict, kind) ==
    /\ ~verdict[1]
    /\ verdict[2] # <<>>
    /\ verdict[2][1] = kind

\* C11: for an edit that is not a citation validate_edit checks similarity,
\* then added words, then removal, and reports the first that fails: the
\* similarity reason when similarity < min_similarity_ratio, else the word
\* reason when added words > max_new_words and the proposed text is no
\* citation or template, else the removal reason when the removal
\* percentage > max_content_removal_pct, else it accepts with an empty
\* reason; a value equal to its threshold passes.
C11_ValidateEditOrder ==
    (/\ probe.op = "validate_edit"
     /\ probe.out # <<>>
     /\ probe.edit.edit_type # "citation") =>
        IF ProbeTooDifferent
        THEN RejectedFor(probe.out[1], "Edit changes too much (similarity: ")
        ELSE IF ProbeAdded > probe.cfg.max_new_words
                /\ ~is_citation_or_template(probe.edit.proposed_text)
        THEN RejectedFor(probe.out[1], "Adds too many new words (")
        ELSE IF ProbeRemoval > probe.cfg.max_content_removal_pct
        THEN RejectedFor(probe.out[1], "Removes too much content (")
        ELSE probe.out[1] = <<TRUE, <<>> >>

\* an edit whose similarity and removal both equal their thresholds, accepted
C11_Witness ==
    /\ probe.op = "validate_edit"
    /\ probe.out # <<>>
    /\ probe.edit.edit_type # "citation"
    /\ 100 * ProbeSimilarity.num
           = probe.cfg.min_similarity_pct * ProbeSimilarity.den
    /\ ProbeRemoval = probe.cfg.max_content_removal_pct
    /\ ProbeRemoval > 0
    /\ probe.out[1][1]

C18_RemovedContentFloor ==
    (probe.op = "count_removed_content" /\ probe.out # <<>>) =>
        LET wo == count_words(probe.edit.original_text)
            wm == count_words(probe.edit.proposed_text)
        IN  /\ probe.out[1] \in 0..100
            /\ (wo = 0 \/ wm >= wo) => probe.out[1] = 0
            /\ wo > 0 => probe.out[1] = (100 * Max(0, wo - wm)) \div wo

\* C13: the status of a proposal only moves forward: whatever the handlers
\* do, a stored proposal stays stored, one that is pushed stays pushed, and
\* one that is rejected stays rejected, so it never becomes pushed.
C13_StatusForward ==
    [][\A pid \in DOMAIN proposals :
          /\ pid \in DOMAIN proposals'
          /\ proposals[pid].status = "pushed" =>
                proposals'[pid].status = "pushed"
          /\ proposals[pid].status = "rejected" =>
                proposals'[pid].status = "rejected"
      ]_vars

\* a pushed proposal was pushed again, the push failed, and it is pushed
\* still
C13_Witness ==
    /\ last # NoCall
    /\ Call.caller = "push_proposal"
    /\ Call.proposal.status = "pushed"
    /\ ~Call.ret.success
    /\ proposals[Call.proposal.id].status = "pushed"

\* C14: once a proposal is pushed, a push request for it never reaches
\* page.save and never records a timestamp in the rate limiter.
C14_PushedIsTerminal ==
    (/\ last # NoCall
     /\ Call.caller = "push_proposal"
     /\ Call.proposal.status = "pushed") =>
        /\ Call.ret.saves = <<>>
        /\ Call.ret.recorded = <<>>

\* the tags of the agent's prompt and the edit type each one names
PromptTags ==
    {<<<<"c", "i", "t", "a", "t", "i", "o", "n">>, "citation">>,
     <<<<"g", "r", "a", "m", "m", "a", "r">>, "grammar">>,
     <<<<"s", "t", "y", "l", "e">>, "style">>,
     <<<<"w", "i", "k", "i", "l", "i", "n", "k">>, "wikilink">>,
     <<<<"p", "o", "l", "i", "c", "y">>, "policy">>,
     <<<<"f", "o", "r", "m", "a", "t", "t", "i", "n", "g">>, "formatting">>}

\* <<the edit type tag names>>, <<>> when tag is not a tag of the prompt
PromptType(tag) ==
    LET hit == {m \in PromptTags : m[1] = tag}
    IN  IF hit = {} THEN <<>> ELSE <<(CHOOSE m \in hit : TRUE)[2]>>

\* C15: every raw candidate among the first max_edits_per_article whose
\* edit_type tag is one of citation, grammar, style, wikilink, policy,
\* formatting is in the proposal, with that type, when validate_edit
\* accepts it.
C15_KnownTagsKept ==
    (probe.op = "analyze_article" /\ probe.out # <<>>) =>
        \A i \in 1..Min(Len(probe.edits), probe.cfg.max_edits_per_article) :
            LET ty   == PromptType(probe.edits[i].edit_type)
                edit == ProposedEdit(ty[1], probe.edits[i].original_text,
                                     probe.edits[i].proposed_text)
            IN  (ty # <<>> /\ validate_edit(probe.cfg, edit)[1]) =>
                    \E j \in 1..Len(probe.out[1].edits) :
                        probe.out[1].edits[j] = edit

\* the approved edits of the probed list
ProbeApproved == SelectSeq(probe.edits, LAMBDA e : e.approved = "True")

\* the number of approved edits of type ty
ProbeCount(ty) == Len(SelectSeq(ProbeApproved, LAMBDA e : e.edit_type = ty))

\* the clauses of the summary in their fixed order
ProbeClauses ==
    (IF ProbeCount("citation") = 0 THEN <<>>
     ELSE << <<"added ">> \o Decimal(ProbeCount("citation")) \o <<" citation">>
             \o (IF ProbeCount("citation") > 1 THEN <<"s">> ELSE <<>>) >>)
    \o (IF ProbeCount("wikilink") = 0 THEN <<>>
        ELSE << Decimal(ProbeCount("wikilink")) \o <<" wikilink">>
                \o (IF ProbeCount("wikilink") > 1 THEN <<"s">> ELSE <<>>) >>)
    \o (IF ProbeCount("grammar") = 0 THEN <<>> ELSE << <<"fixed grammar">> >>)
    \o (IF ProbeCount("style") = 0 THEN <<>> ELSE << <<"style fixes">> >>)
    \o (IF ProbeCount("policy") = 0 THEN <<>> ELSE << <<"policy compliance">> >>)
    \o (IF ProbeCount("formatting") = 0 THEN <<>> ELSE << <<"formatting">> >>)

\* C16: with an approved edit, get_edit_summary is "Copyedit: " and one
\* clause for each edit type among the approved edits, in the order
\* citations, wikilinks, fixed grammar, style fixes, policy compliance,
\* formatting, joined by ", ", whatever the order of the edits; the
\* citation and wikilink clauses carry the count, with an "s" exactly when
\* it is above 1, and edits that are not approved count for nothing.  The
\* disclosure suffix follows the clauses.
C16_SummaryClauses ==
    (/\ probe.op = "get_edit_summary"
     /\ probe.out # <<>>
     /\ ProbeApproved # <<>>) =>
        /\ Len(probe.out[1]) >= 3
        /\ SubSeq(probe.out[1], 1, Len(probe.out[1]) - 2)
               = <<"Copyedit: ">> \o JoinParts(ProbeClauses)

\* grammar approved first, a pending wikilink, citations approved last: the
\* citations lead the summary and the wikilink is not in it
C16_Witness ==
    /\ probe.op = "get_edit_summary"
    /\ probe.out # <<>>
    /\ Len(probe.edits) = 3
    /\ probe.edits[1].edit_type = "grammar" /\ probe.edits[1].approved = "True"
    /\ probe.edits[2].edit_type = "wikilink" /\ probe.edits[2].approved = "None"
    /\ probe.edits[3].edit_type = "citation" /\ probe.edits[3].approved = "True"
    /\ SubSeq(probe.out[1], 1, 6)
           = <<"Copyedit: ", "added ", "1", " citation", ", ", "fixed grammar">>

\* C17: every summary that is not empty ends with the configured
\* edit_summary_suffix.
C17_ConfiguredSuffix ==
    (/\ probe.op = "get_edit_summary"
     /\ probe.out # <<>>
     /\ probe.out[1] # <<>>) =>
        probe.out[1][Len(probe.out[1])] = probe.cfg.edit_summary_suffix

\* w holds o at i and nowhere before i
FirstOccurrence(w, o, i) ==
    /\ i + Len(o) - 1 <= Len(w)
    /\ SubSeq(w, i, i + Len(o) - 1) = o
    /\ \A j \in 1..(i - 1) : SubSeq(w, j, j + Len(o) - 1) # o

\* C19: apply_edits with no edit returns the wikitext unchanged; with one
\* edit whose original_text occurs in the wikitext it returns the wikitext
\* with the first occurrence of original_text replaced by proposed_text and
\* every other character, later occurrences included, as it was.
C19_FirstOccurrenceOnly ==
    (probe.op = "apply_edits" /\ probe.out # <<>>) =>
        /\ probe.edits = <<>> => probe.out[1] = probe.wikitext
        /\ Len(probe.edits) = 1 =>
              \A i \in 1..(Len(probe.wikitext) + 1) :
                  FirstOccurrence(probe.wikitext,
                                  probe.edits[1].original_text, i) =>
                      probe.out[1] =
                          SubSeq(probe.wikitext, 1, i - 1)
                          \o probe.edits[1].proposed_text
                          \o SubSeq(probe.wikitext,
                                    i + Len(probe.edits[1].original_text),
                                    Len(probe.wikitext))

\* one edit whose original_text occurs twice: only the first is replaced
C19_Witness ==
    /\ probe.op = "apply_edits"
    /\ probe.out # <<>>
    /\ probe.wikitext = <<"a", "b", "a", "b">>
    /\ Len(probe.edits) = 1
    /\ probe.edits[1].original_text = <<"a">>
    /\ probe.edits[1].proposed_text = <<"z", "z">>
    /\ probe.out[1] = <<"z", "z", "b", "a", "b">>

\* the edits applied one at a time, each time the one whose original_text
\* is found latest in the text as it is then (the first of them on a tie)
RECURSIVE ApplyRecomputed(_, _)
ApplyRecomputed(text, rest) ==
    IF rest = <<>> THEN text
    ELSE LET key(i) == Find(text, rest[i].original_text)
             best   == CHOOSE i \in 1..Len(rest) :
                           \A j \in 1..Len(rest) :
                               key(i) > key(j) \/ (key(i) = key(j) /\ i <= j)
             others == [k \in 1..(Len(rest) - 1) |->
                           IF k < best THEN rest[k] ELSE rest[k + 1]]
         IN  ApplyRecomputed(ReplaceFirst(text, rest[best].original_text,
                                          rest[best].proposed_text),
                             others)

\* C20: apply_edits applies the edits in descending order of the position
\* of original_text in the working copy, the position found anew in the
\* text as modified so far before each edit is applied.
C20_PositionsRecomputed ==
    (probe.op = "apply_edits" /\ probe.out # <<>>) =>
        probe.out[1] = ApplyRecomputed(probe.wikitext, probe.edits)

\* C21 as stated: the RateLimiter's list is changed by record_edit alone, so
\* after every call of push_edits it is the list the call found with the
\* timestamps the call recorded appended; can_edit removes nothing.
C21_OnlyRecordEdit ==
    last # NoCall => edit_times = Call.edit_times \o Call.ret.recorded

\* C21: the RateLimiter's list is changed by calls of push_edits alone, and
\* by each in two ways only: can_edit drops the leading timestamps that are
\* an hour old or older and keeps every newer one in place, and record_edit
\* appends the timestamp of a successful submission.  A call that fails as
\* rate-limited leaves the list exactly as it was.
C21_PruneOrRecord ==
    [][/\ last' = NoCall => edit_times' = edit_times
       /\ last' # NoCall =>
             LET c       == last'[1]
                 dropped == Len(edit_times) + Len(c.ret.recorded)
                                - Len(edit_times')
             IN  /\ dropped \in 0..Len(edit_times)
                 /\ edit_times' =
                        SubSeq(edit_times, dropped + 1, Len(edit_times))
                        \o c.ret.recorded
                 /\ \A i \in 1..Len(edit_times) :
                        (i <= dropped) <=> (edit_times[i] <= now - Hour)
                 /\ c.ret.message = RateLimitMsg => edit_times' = edit_times
      ]_vars

\* a call refused as rate-limited: the list it found is the list it left
C21_Witness ==
    /\ last # NoCall
    /\ Call.ret.message = RateLimitMsg
    /\ Len(Call.edit_times) = config.rate_limit_edits_per_hour
    /\ edit_times = Call.edit_times

\* C22: once the status of a proposal is "pushed", no request changes the
\* approved flag or the proposed_text of any of its edits: approve-edit,
\* reject-edit and update-edit leave a pushed proposal's edits as they are.
C22_FrozenAfterPush ==
    [][\A pid \in DOMAIN proposals :
          proposals[pid].status = "pushed" =>
              /\ pid \in DOMAIN proposals'
              /\ Len(proposals'[pid].edits) = Len(proposals[pid].edits)
              /\ \A i \in 1..Len(proposals[pid].edits) :
                     /\ proposals'[pid].edits[i].approved
                            = proposals[pid].edits[i].approved
                     /\ proposals'[pid].edits[i].proposed_text
                            = proposals[pid].edits[i].proposed_text
      ]_vars

\* C23: page.save is never called on a diverged article: at the moment a
\* thread calls page.save, the live revision is the base revision of the
\* proposal it pushes, whatever other editors and other requests did since
\* check_for_conflicts read it.
C23_NoSaveOnDiverged ==
    \A t \in Tids :
        threads[t].saved_on # <<>> =>
            Decimal(threads[t].saved_on[1])
                = proposals[threads[t].pid].article.revision_id

\* the oldest of the timestamps a refused can_edit counted: the limiter was
\* full, so they are the last max_edits_per_hour entries of the log
OldestCounted(log) == log[Len(log) - config.rate_limit_edits_per_hour + 1]

\* can_edit, called now, would return true
GateOpen == can_edit(config.rate_limit_edits_per_hour, edit_times, now).ret

\* C24: rate limiting is recoverable by waiting.  While no further edit is
\* recorded, every push_edits call made more than one hour after the oldest
\* timestamp a refused check counted passes the rate gate; and as the clock
\* runs, a push refused as rate-limited (early enough for the clock of the
\* model to pass that hour) is followed by a state in which can_edit
\* returns true, so that a retried push passes the rate gate.
C24_RecoverableByWaiting ==
    /\ [](last # NoCall
            /\ Len(Call.record_log) >= config.rate_limit_edits_per_hour
            /\ Call.t_now > OldestCounted(Call.record_log) + Hour
          => CanEditReturnedTrue(Call))
    /\ (last # NoCall
            /\ Call.ret.message = RateLimitMsg
            /\ OldestCounted(Call.record_log) + Hour < MaxTime)
          ~> GateOpen

\* the limiter was full when the call was made, more than an hour after
\* its oldest timestamp, and the call passed the rate gate
C24_Witness ==
    /\ last # NoCall
    /\ config.rate_limit_edits_per_hour >= 1
    /\ Len(Call.edit_times) = config.rate_limit_edits_per_hour
    /\ Call.t_now > Head(Call.edit_times) + Hour
    /\ Call.edit_times[Len(Call.edit_times)] < Head(Call.edit_times) + Hour
    /\ CanEditReturnedTrue(Call)

\* C25: can_edit at time now removes exactly the stored timestamps older
\* than now - Hour (t < now - Hour) and keeps all others, a timestamp
\* exactly one hour old included, which still counts; it returns
\* (number kept) < max_edits_per_hour.
C25_PruneOlderOnly ==
    last # NoCall =>
        LET kept == SelectSeq(Call.edit_times,
                              LAMBDA t : ~(t < Call.t_now - Hour))
        IN  /\ Call.ret.edit_times = kept \o Call.ret.recorded
            /\ CanEditReturnedTrue(Call)
                  <=> Len(kept) < config.rate_limit_edits_per_hour

\* the first occurrences of the edits' original_text in w: each edit's
\* original_text is not empty and occurs in w, and no two of the first
\* occurrences share a character
FirstOccurrencesApart(w, edits) ==
    /\ \A i \in 1..Len(edits) :
           /\ edits[i].original_text # <<>>
           /\ Find(w, edits[i].original_text) # 0
    /\ \A i, j \in 1..Len(edits) :
           i < j =>
               \/ Find(w, edits[i].original_text) + Len(edits[i].original_text)
                      <= Find(w, edits[j].original_text)
               \/ Find(w, edits[j].original_text) + Len(edits[j].original_text)
                      <= Find(w, edits[i].original_text)

\* w from character k on, with each first occurrence replaced by the
\* proposed_text of its edit, all at once
RECURSIVE Simultaneous(_, _, _)
Simultaneous(w, edits, k) ==
    IF k > Len(w) THEN <<>>
    ELSE LET starts == {i \in 1..Len(edits) :
                           Find(w, edits[i].original_text) = k}
             inside == {i \in 1..Len(edits) :
                           /\ Find(w, edits[i].original_text) < k
                           /\ k < Find(w, edits[i].original_text)
                                    + Len(edits[i].original_text)}
         IN  (IF starts # {}
              THEN edits[CHOOSE i \in starts : TRUE].proposed_text
              ELSE IF inside # {} THEN <<>> ELSE <<w[k]>>)
             \o Simultaneous(w, edits, k + 1)

\* the reorderings of a list of edits
Reorderings(edits) ==
    {[i \in 1..Len(edits) |-> edits[f[i]]] :
        f \in {g \in [1..Len(edits) -> 1..Len(edits)] :
                  \A i, j \in 1..Len(edits) : g[i] = g[j] => i = j}}

\* C26: when every edit has a non-empty original_text that occurs in the
\* wikitext and the first occurrences are pairwise apart, apply_edits
\* returns the wikitext with exactly those occurrences replaced by the
\* proposed texts, and returns the same for every order of the edit list.
C26_SimultaneousSubstitution ==
    (/\ probe.op = "apply_edits"
     /\ probe.out # <<>>
     /\ FirstOccurrencesApart(probe.wikitext, probe.edits)) =>
        /\ probe.out[1] = Simultaneous(probe.wikitext, probe.edits, 1)
        /\ \A other \in Reorderings(probe.edits) :
               apply_edits(probe.wikitext, other) = probe.out[1]

\* "abab" with "a" -> "zz" listed before "ba" -> "a": the replacement on
\* the left changes the length, both land where they were found
C26_Witness ==
    /\ probe.op = "apply_edits"
    /\ probe.out # <<>>
    /\ probe.wikitext = <<"a", "b", "a", "b">>
    /\ Len(probe.edits) = 2
    /\ probe.edits[1].original_text = <<"a">>
    /\ probe.edits[1].proposed_text = <<"z", "z">>
    /\ probe.edits[2].original_text = <<"b", "a">>
    /\ FirstOccurrencesApart(probe.wikitext, probe.edits)
    /\ probe.out[1] = <<"z", "z", "a", "b">>

\* the list without its i-th element
Without(edits, i) ==
    [k \in 1..(Len(edits) - 1) |-> IF k < i THEN edits[k] ELSE edits[k + 1]]

\* C27: an edit whose original_text occurs nowhere in the article's
\* original wikitext has no effect: apply_edits returns the same with and
\* without it, so no edit is applied to text another edit's replacement
\* produced.
C27_AbsentEditNoEffect ==
    (probe.op = "apply_edits" /\ probe.out # <<>>) =>
        \A i \in 1..Len(probe.edits) :
            Find(probe.wikitext, probe.edits[i].original_text) = 0 =>
                probe.out[1]
                    = apply_edits(probe.wikitext, Without(probe.edits, i))

\* C28: get_edit_summary returns the empty string exactly when the
\* proposal has no approved edit, an approved edit of any of the six types
\* yielding a clause; so push_edits fails with "No approved edits to push"
\* exactly when the rate gate and the conflict gate passed and no edit is
\* approved.
C28_EmptySummary ==
    /\ (probe.op = "get_edit_summary" /\ probe.out # <<>>) =>
          /\ probe.out[1] = <<>> <=> ProbeApproved = <<>>
          /\ ProbeApproved # <<>> =>
                /\ Len(probe.out[1]) > 3
                /\ \A ty \in EditTypeValues :
                       ProbeCount(ty) = Len(ProbeApproved) =>
                           ProbeClauses # <<>>
                           /\ SubSeq(probe.out[1], 2, Len(probe.out[1]) - 2)
                                  = ProbeClauses[1]
    /\ (probe.op = "push_edits" /\ probe.out # <<>>) =>
          (probe.out[1].message = NoApprovedMsg
              <=> /\ Len(InHour(probe.edit_times, now))
                         < probe.cfg.rate_limit_edits_per_hour
                  /\ ~probe.env.lookup_error
                  /\ Decimal(probe.env.live_revision)
                         = PushedProposal(probe.wikitext, probe.edits)
                               .article.revision_id
                  /\ ProbeApproved = <<>>)

\* a proposal with a rejected and a pending edit: both gates passed and the
\* push failed for want of an approved edit
C28_Witness ==
    /\ probe.op = "push_edits"
    /\ probe.out # <<>>
    /\ Len(probe.edits) = 2
    /\ probe.edits[1].approved = "False"
    /\ probe.edits[2].approved = "None"
    /\ probe.out[1].gates = AllGates
    /\ probe.out[1].message = NoApprovedMsg
    /\ ~probe.out[1].success

\* the edits of sorted_edits the loop of apply_edits finds in the working
\* copy when their turn comes
RECURSIVE AppliedIn(_, _)
AppliedIn(text, sorted_edits) ==
    IF sorted_edits = <<>> THEN <<>>
    ELSE LET edit == Head(sorted_edits)
         IN  IF Find(text, edit.original_text) # 0
             THEN <<edit>>
                  \o AppliedIn(ReplaceFirst(text, edit.original_text,
                                            edit.proposed_text),
                               Tail(sorted_edits))
             ELSE AppliedIn(text, Tail(sorted_edits))

\* the edits apply_edits applied to wikitext, the skipped ones left out
AppliedEdits(wikitext, edits) ==
    LET keyed  == [i \in 1..Len(edits) |->
                       <<Find(wikitext, edits[i].original_text), edits[i]>>]
        sorted == SortedDesc(keyed)
    IN  AppliedIn(wikitext, [i \in 1..Len(sorted) |-> sorted[i][2]])

\* C29: when a push through the web handler succeeds, the submitted
\* summary counts only the approved edits apply_edits applied (a skipped
\* edit adds to no clause or count), and the submitted text is not the
\* article's original wikitext.
C29_SummaryOfAppliedEdits ==
    (/\ last # NoCall
     /\ Call.caller = "push_proposal"
     /\ Call.ret.success) =>
        /\ Call.ret.saves[1].text # Call.proposal.article.wikitext
        /\ Call.ret.saves[1].summary =
               get_edit_summary(AppliedEdits(Call.proposal.article.wikitext,
                                             ApprovedAt(Call)))

\* how often x is in log
Occurrences(log, x) == Len(SelectSeq(log, LAMBDA y : y = x))

\* C30: when push requests interleave on the one RateLimiter, the
\* successful submissions recorded in any window of an hour are still never
\* more than max_edits_per_hour, and no recorded timestamp is lost: every
\* timestamp recorded less than an hour ago is in the limiter's list.
C30_CapUnderInterleaving ==
    /\ \A t \in 0..MaxTime :
           Len(InHour(record_log, t)) <= config.rate_limit_edits_per_hour
    /\ \A x \in 0..MaxTime :
           x > now - Hour =>
               Occurrences(record_log, x) <= Occurrences(edit_times, x)

====
